---- MODULE Spec2Model ----
(***************************************************************************)
(* Model of the chord-sight sample playback engine.                        *)
(*                                                                         *)
(* SoundEngine (voice registry, polyphony limit and voice stealing,        *)
(* sustain pedal, release, allNotesOff, panic), the part of StereoManager  *)
(* that realizes a voice, and EnvelopeCalculator.calculateReleaseTime.     *)
(*                                                                         *)
(* Time is the audio clock (AudioContext.currentTime) in microseconds.     *)
(* The Web Audio nodes of a voice are modelled by what the engine asks of  *)
(* them: the deadline of the last stop() request on each source, the last  *)
(* gain automation scheduled on the gain node, and whether the gain and    *)
(* merger nodes are still connected.  stop() follows the W3C Web Audio     *)
(* semantics: it may be called again on a started source and the last      *)
(* call's deadline is the one that applies.                                *)
(*                                                                         *)
(* An optional value (x?: number) is the empty set or a singleton.         *)
(*                                                                         *)
(* SampleManager (the sample cache, its LRU eviction and its statistics)   *)
(* and StereoManager.playStereoPair with PitchCalculator are modelled too. *)
(* SF2Parser.parse, PitchCalculator and EnvelopeCalculator keep no state:  *)
(* a call and its result are the variables asked and answer; so are those *)
(* of selectZones, parsePresets and detectChord.  What stands in front of  *)
(* the engine (MIDIManager, MIDIStore, audioStore and the transposition of *)
(* AudioEngine) has variables of its own.                                  *)
(* The specifications share the variables:                                 *)
(*   Spec         the engine alone, samples abstracted to has-data or not  *)
(*   RaisingSpec  the engine on a platform whose stop() raises when the    *)
(*                source was already asked to stop                         *)
(*   CacheSpec    the sample manager alone                                 *)
(*   PlaySpec     noteOn down to the sample cache and the two sources      *)
(*   ParseSpec    one call of SF2Parser.parse                              *)
(*   CalcSpec     one call of calculatePlaybackRate or calculateReleaseTime*)
(*   FairSpec     the engine with ended events that fire and a clock that  *)
(*                reaches every scheduled stop time                        *)
(*   OverlapSpec  the engine with calls that start while a noteOn is       *)
(*                suspended                                                *)
(*   SelectSpec     one call of selectZones on a bank of up to two presets *)
(*   GeneratorSpec  parseGenerators and buildZone on the records of a bag  *)
(*   PresetSpec     one call of parsePresets                               *)
(*   MidiSpec       MIDIManager with the listeners of MIDIStore            *)
(*   TransposeSpec  the note listeners of AudioEngine and setTranspose     *)
(*   StoreSpec      the pedal operations of audioStore on the engine       *)
(*   DetectSpec     one call of detectChord                                *)
(***************************************************************************)
EXTENDS Integers, Sequences, FiniteSets, TLC

\* ------------------------------------------------------------------ bounds
MaxVoices == 3                 \* voices created in one run
ShortGap == 10000              \* a clock reading inside a 20 ms fade
LongGap == 120000000           \* a clock reading two minutes later
MaxWallClock == 2              \* readings of Date.now() after the first
MaxLoading == 2                \* loadSample calls suspended at one time
MaxBytes == 24                 \* totalMemoryUsage up to which loads start

\* --------------------------------------------------------------- constants
MicrosPerSecond == 1000000
MinNote == 21
MaxNote == 108
MinVelocity == 0
MaxVelocity == 127
DefaultMaxPolyphony == 64
FadeOutTime == 20000           \* 0.02 s
TargetGainInverse == 10000     \* targetGain = 0.0001 = 1 / 10000
LinearRampTime == 10000        \* 0.01 s
StopMargin == 100000           \* 0.1 s
ReleasingPenalty == 1000       \* priority points
AgePointsPerSecond == 10
DefaultReleaseTime == 200000   \* 0.2 s
MinReleaseTime == 10000        \* 0.01 s
MaxReleaseTime == 10000000     \* 10 s
TimecentsPerOctave == 1200
PanLeft == -500
PanRight == 500
NoVoice == 0                   \* null
DefaultMaxCacheSize == 150
BytesPerFloat == 4
NoSample == -1                 \* null
ChunkHeaderSize == 8           \* a chunk id and a chunk size
ListTypeSize == 4              \* the type tag of a LIST chunk
PhdrRecordSize == 38
InstRecordSize == 22
ShdrRecordSize == 46
BagRecordSize == 4             \* a bag or a generator
ModRecordSize == 10
DefaultSampleRate == 44100
DefaultOriginalPitch == 60
VelocityScale == 127
CentsPerSemitone == 100

\* ------------------------------------------------------------------ inputs
Notes == {60, 62, 64}
Velocities == {0, 100}
\* the readings of the audio clock at which something happens
ClockPoints == {0, ShortGap, LongGap}
\* the values of config.maxPolyphony
PolyphonyConfigs == {1, 2}

Zone(kl, kh, vl, vh, pan, sid, rel) ==
    [keyLow |-> kl, keyHigh |-> kh, velLow |-> vl, velHigh |-> vh,
     pan |-> pan, sampleId |-> sid, releaseVolEnv |-> rel, fineTune |-> {}]

\* sf2Data.samples.length
SampleCount == 3

\* sf2Data.presets[0].zones: note 60 is a stereo pair with no release
\* generator, note 62 a stereo pair with releaseVolEnv = -1200 timecents,
\* note 64 has a left zone only, note 61 a stereo pair for the velocities
\* from 64 up, note 65 a right zone only, note 66 a pair whose left zone has
\* no sample id, note 67 a pair whose right zone names a sample that is
\* not in the bank.
PresetZones ==
    << Zone(60, 60, 0, 127, {PanLeft}, {0}, {}),
       Zone(60, 60, 0, 127, {PanRight}, {1}, {}),
       Zone(62, 62, 0, 127, {PanLeft}, {0}, {-1200}),
       Zone(62, 62, 0, 127, {PanRight}, {1}, {-1200}),
       Zone(64, 64, 0, 127, {PanLeft}, {0}, {}),
       Zone(61, 61, 64, 127, {PanLeft}, {2}, {}),
       Zone(61, 61, 64, 127, {PanRight}, {1}, {}),
       Zone(65, 65, 0, 127, {PanRight}, {1}, {}),
       Zone(66, 66, 0, 127, {PanLeft}, {}, {}),
       Zone(66, 66, 0, 127, {PanRight}, {1}, {}),
       Zone(67, 67, 0, 127, {PanLeft}, {0}, {}),
       Zone(67, 67, 0, 127, {PanRight}, {SampleCount}, {}) >>

\* sample.header of the samples of the bank, and audioContext.sampleRate
OriginalPitch(sampleId) == 60
PitchCorrection(sampleId) == sampleId
SampleRate(sampleId) == 48000
ContextRate == 44100

\* sf2Data.samples[sampleId].data.length
SampleLength(sampleId) == sampleId + 1

\* the values of config.maxCacheSize
CacheConfigs == {1, 2}

\* the sample ids asked of the cache: one below and one above the samples
SampleIds == -1..SampleCount

\* ------------------------------------------------------------------- state
VARIABLES
    voices,          \* Map<number, Voice[]> in insertion order: <<[note, vs]>>
    voice,           \* the Voice objects of the registry, by id
    sustainPedal,
    sustainedNotes,
    maxPolyphony,
    now,             \* audioContext.currentTime
    nextId,          \* id of the next Voice object
    pending,         \* noteOn calls suspended at the sample-buffer await
    last,            \* what the last step did
    cache,           \* Map<number, CacheEntry> in insertion order
    maxCacheSize,
    totalMemoryUsage,
    wallClock,       \* Date.now()
    loading,         \* loadSample calls suspended at the createAudioBuffer await
    used,            \* the resident sample ids, least recently used first
    cacheLast,       \* what the last step of the sample manager did
    played,          \* the last noteOn asked of the engine and what
                     \* playStereoPair made of it
    asked,           \* the last call of a function of the bank code
    answer,          \* what that call returned or threw
    transpose,       \* AudioEngine.transpose
    midiManager,     \* MIDIManager: activeNotes, isPaused
    midiStore,       \* MIDIStore: activeKeys, isSustainPedalDown, sustainedKeys
    keyboardDisplayMode,    \* settingsStore.keyboardDisplayMode
    sustainPedalDown,       \* the sustainPedalDown store of audioStore
    frontLast        \* what the last step in front of the engine did

engineVars == <<voices, voice, sustainPedal, sustainedNotes, maxPolyphony, now,
                nextId, pending, last>>

cacheVars == <<cache, maxCacheSize, totalMemoryUsage, wallClock, loading, used,
               cacheLast>>

\* the call and the result of a function that keeps no state
callVars == <<asked, answer>>

\* the MIDI input, the stores and the transposition in front of the engine
frontVars == <<transpose, midiManager, midiStore, keyboardDisplayMode,
               sustainPedalDown, frontLast>>

\* what the engine alone leaves as it is
samplerVars == <<cacheVars, played, callVars, frontVars>>

vars == <<engineVars, cacheVars, played, callVars, frontVars>>


\* ---------------------------------------------------------------- helpers
RECURSIVE Pow2(_)
Pow2(k) == IF k = 0 THEN 1 ELSE 2 * Pow2(k - 1)

\* EnvelopeCalculator.timecentsToSeconds, in microseconds (rounded down),
\* for a whole number of octaves; above 2^4 s the result is reported as
\* 2^4 s, which the callers clamp exactly as the true value.
TimecentsToSeconds(timecents) ==
    LET k == timecents \div TimecentsPerOctave
    IN  IF k >= 4 THEN MicrosPerSecond * Pow2(4)
        ELSE IF k >= 0 THEN MicrosPerSecond * Pow2(k)
        ELSE IF k <= -20 THEN 0
        ELSE MicrosPerSecond \div Pow2(-k)

\* calculateReleaseTime testing !releaseVolEnv for releaseVolEnv === undefined
CalculateReleaseTimeFalsy(releaseVolEnv) ==
    IF releaseVolEnv = {} \/ releaseVolEnv = {0} THEN DefaultReleaseTime
    ELSE LET releaseTime ==
                 TimecentsToSeconds(CHOOSE tc \in releaseVolEnv : TRUE)
         IN  IF releaseTime < MinReleaseTime THEN MinReleaseTime
             ELSE IF releaseTime > MaxReleaseTime THEN MaxReleaseTime
             ELSE releaseTime

\* EnvelopeCalculator.calculateReleaseTime
CalculateReleaseTime(releaseVolEnv) ==
    IF releaseVolEnv = {} THEN DefaultReleaseTime
    ELSE LET releaseTime ==
                 TimecentsToSeconds(CHOOSE tc \in releaseVolEnv : TRUE)
         IN  IF releaseTime < MinReleaseTime THEN MinReleaseTime
             ELSE IF releaseTime > MaxReleaseTime THEN MaxReleaseTime
             ELSE releaseTime

\* getReleaseTime ignoring the zones of the voice
GetReleaseTimeDefault(v) == CalculateReleaseTime({})

\* SoundEngine.getReleaseTime
GetReleaseTime(v) ==
    IF Len(v.zones) = 0 THEN CalculateReleaseTime({})
    ELSE CalculateReleaseTime(v.zones[1].releaseVolEnv)

\* selectZones testing the key range only
SelectZonesKeyOnly(midiNote, velocity) ==
    SelectSeq(PresetZones,
              LAMBDA z : midiNote >= z.keyLow /\ midiNote <= z.keyHigh)

\* SoundEngine.selectZones
SelectZones(midiNote, velocity) ==
    SelectSeq(PresetZones,
              LAMBDA z : /\ midiNote >= z.keyLow
                         /\ midiNote <= z.keyHigh
                         /\ velocity >= z.velLow
                         /\ velocity <= z.velHigh)

\* zones.find(z => z.generators.pan === pan), as the set {zone} or {}
FindPan(zones, pan) ==
    LET hits == {i \in 1..Len(zones) : zones[i].pan = {pan}}
    IN  IF hits = {} THEN {}
        ELSE {zones[CHOOSE i \in hits : \A j \in hits : i <= j]}

\* SampleManager.getSampleData(sampleId) finds a sample
HasSampleData(sampleId) == sampleId >= 0 /\ sampleId < SampleCount

\* StereoManager.playStereoPair resolves (it does not throw or reject)
StereoPairPlayable(zones) ==
    LET leftZone == FindPan(zones, PanLeft)
        rightZone == FindPan(zones, PanRight)
    IN  /\ leftZone # {} /\ rightZone # {}
        /\ \A z \in leftZone \cup rightZone :
               /\ z.sampleId # {}
               /\ \A sid \in z.sampleId : HasSampleData(sid)

\* ---------------------------------------------------------- the registry
\* this.voices.get(midiNote), <<>> when the key is absent
VoicesOf(reg, midiNote) ==
    LET hits == {i \in 1..Len(reg) : reg[i].note = midiNote}
    IN  IF hits = {} THEN <<>> ELSE reg[CHOOSE i \in hits : TRUE].vs

SeqToSet(s) == {s[i] : i \in 1..Len(s)}

RECURSIVE Flatten(_)
\* every voice id of the registry, in Map order and then array order
Flatten(reg) == IF reg = <<>> THEN <<>> ELSE Head(reg).vs \o Flatten(Tail(reg))

RegisteredIds(reg) == SeqToSet(Flatten(reg))

RegisteredNotes(reg) == {reg[i].note : i \in 1..Len(reg)}

\* the count loop of checkPolyphonyLimit and getStats
TotalVoices(reg) == Len(Flatten(reg))

\* this.voices.get(midiNote).push(id), after set(midiNote, []) if absent
PushVoice(reg, midiNote, id) ==
    IF midiNote \in RegisteredNotes(reg)
    THEN [i \in 1..Len(reg) |->
             IF reg[i].note = midiNote
             THEN [reg[i] EXCEPT !.vs = Append(@, id)] ELSE reg[i]]
    ELSE Append(reg, [note |-> midiNote, vs |-> <<id>>])

\* the note whose array holds the voice, as {note} or {}
NoteHolding(reg, id) ==
    {reg[i].note : i \in {j \in 1..Len(reg) : id \in SeqToSet(reg[j].vs)}}

\* the registry part of removeVoice: splice, and delete an emptied key
SpliceVoice(reg, id) ==
    LET spliced == [i \in 1..Len(reg) |->
                       [reg[i] EXCEPT
                           !.vs = SelectSeq(@, LAMBDA x : x # id)]]
    IN  SelectSeq(spliced, LAMBDA e : e.vs # <<>>)

\* removeVoice without sustainedNotes.delete
SustainKept(reg, sus, id) == sus

\* the sustainedNotes part of removeVoice
SustainAfterRemove(reg, sus, id) ==
    sus \ {n \in NoteHolding(reg, id) : VoicesOf(SpliceVoice(reg, id), n) = <<>>}

\* the node part of removeVoice
Disconnect(vc, id) ==
    IF id \in DOMAIN vc
    THEN [vc EXCEPT ![id].gainConnected = FALSE, ![id].mergerConnected = FALSE]
    ELSE vc

\* source.stop(when) on both sources of the voices ids
StopSources(vc, ids, when) ==
    [id \in DOMAIN vc |->
        IF id \in ids
        THEN [vc[id] EXCEPT !.leftStop = {when}, !.rightStop = {when}]
        ELSE vc[id]]


\* ------------------------------------------------------------ the history
\* What the last step did.  held is the SustainSet a pedal-up, allNotesOff,
\* panic, ended event or noteOn found.  gone holds the Voice objects that left the
\* registry in the step, as the step left them: nothing refers to them
\* afterwards (their ended event finds no registry entry to remove), and the
\* history keeps of them their ids, those whose two sources were asked to
\* stop at once, and those whose gain and merger nodes are disconnected.
Did(op, midiNote, stolen, gone, currentTime) ==
    [op |-> op, note |-> midiNote, stolen |-> stolen,
     held |-> IF op \in {"pedalUp", "allNotesOff", "panic", "onended",
                          "noteOn", "noteOnFailed"}
              THEN sustainedNotes ELSE {},
     removed |-> {v.id : v \in gone},
     stopped |-> {v.id : v \in {w \in gone : /\ w.leftStop = {currentTime}
                                              /\ w.rightStop = {currentTime}}},
     disconnected |-> {v.id : v \in {w \in gone : /\ ~w.gainConnected
                                                   /\ ~w.mergerConnected}}]

\* the Voice objects ids are dropped from vc
Drop(vc, ids) == [id \in DOMAIN vc \ ids |-> vc[id]]

\* ---------------------------------------------------------------- release
\* gainNode.gain.value <= targetGain in releaseNote.  With no automation
\* scheduled the value is (velocity / 127)^2; while or after a fade ramp the
\* value read depends on the render quantum, and read is what was found.
GainNearSilent(v, read) ==
    IF v.gain.kind = "none"
    THEN v.velocity * v.velocity * TargetGainInverse
             <= MaxVelocity * MaxVelocity
    ELSE read

\* the body of the loop of releaseNote without the two stop() calls
ReleaseVoiceNoStop(v, currentTime, read) ==
    LET releaseTime == GetReleaseTime(v)
    IN  [v EXCEPT
           !.isReleasing = TRUE,
           !.gain = IF GainNearSilent(v, read)
                    THEN [kind |-> "linear", start |-> currentTime,
                          end |-> currentTime + LinearRampTime]
                    ELSE [kind |-> "exponential", start |-> currentTime,
                          end |-> currentTime + releaseTime],
           !.releaseTime = {currentTime + releaseTime}]

\* the body of the loop of releaseNote for a voice that is not releasing
ReleaseVoice(v, currentTime, read) ==
    LET releaseTime == GetReleaseTime(v)
    IN  [v EXCEPT
           !.isReleasing = TRUE,
           !.gain = IF GainNearSilent(v, read)
                    THEN [kind |-> "linear", start |-> currentTime,
                          end |-> currentTime + LinearRampTime]
                    ELSE [kind |-> "exponential", start |-> currentTime,
                          end |-> currentTime + releaseTime],
           !.leftStop = {currentTime + releaseTime + StopMargin},
           !.rightStop = {currentTime + releaseTime + StopMargin},
           !.releaseTime = {currentTime + releaseTime}]

\* releaseNote without the isReleasing test
ReleaseNoteAgain(vc, reg, midiNote, currentTime, read) ==
    [id \in DOMAIN vc |->
        IF id \in SeqToSet(VoicesOf(reg, midiNote))
        THEN ReleaseVoice(vc[id], currentTime, read)
        ELSE vc[id]]

\* SoundEngine.releaseNote
ReleaseNote(vc, reg, midiNote, currentTime, read) ==
    [id \in DOMAIN vc |->
        IF id \in SeqToSet(VoicesOf(reg, midiNote)) /\ ~vc[id].isReleasing
        THEN ReleaseVoice(vc[id], currentTime, read)
        ELSE vc[id]]

RECURSIVE ReleaseNotes(_, _, _, _, _)
\* releaseNote for each note of a loop over notes
ReleaseNotes(vc, reg, notes, currentTime, read) ==
    IF notes = {} THEN vc
    ELSE LET n == CHOOSE x \in notes : TRUE
         IN  ReleaseNotes(ReleaseNote(vc, reg, n, currentTime, read), reg,
                          notes \ {n}, currentTime, read)

\* --------------------------------------------------------- voice stealing
\* the priority of stealOldestVoice in units of 1 / (10 * 10^5) point, so
\* that one microsecond of age is one unit
Priority(v, currentTime) ==
    LET unit == MicrosPerSecond \div AgePointsPerSecond
    IN  (IF v.isReleasing THEN 0 - ReleasingPenalty * unit ELSE 0)
        - v.velocity * unit
        + (currentTime - v.startTime)

RECURSIVE StealScan(_, _, _, _, _)
\* the loops of stealOldestVoice over the remaining voices ids
StealScan(ids, vc, currentTime, targetVoice, lowestPriority) ==
    IF ids = <<>> THEN targetVoice
    ELSE LET priority == Priority(vc[Head(ids)], currentTime)
         IN  IF targetVoice = NoVoice \/ priority < lowestPriority
             THEN StealScan(Tail(ids), vc, currentTime, Head(ids), priority)
             ELSE StealScan(Tail(ids), vc, currentTime, targetVoice,
                            lowestPriority)

\* the voice stealOldestVoice picks, NoVoice when the registry is empty
StealTarget(reg, vc, currentTime) ==
    StealScan(Flatten(reg), vc, currentTime, NoVoice, 0)

\* checkPolyphonyLimit testing > for >=
AtPolyphonyLimitStrict(totalVoices, limit) == totalVoices > limit

\* the test of checkPolyphonyLimit
AtPolyphonyLimit(totalVoices, limit) == totalVoices >= limit

\* checkPolyphonyLimit stealing when one more voice would meet the limit
CheckPolyphonyLimitEarly(reg, vc, limit, currentTime) ==
    IF TotalVoices(reg) + 1 >= limit
    THEN {StealTarget(reg, vc, currentTime)} \ {NoVoice}
    ELSE {}

\* the voice checkPolyphonyLimit has stolen, as {id} or {}
CheckPolyphonyLimit(reg, vc, limit, currentTime) ==
    IF AtPolyphonyLimit(TotalVoices(reg), limit)
    THEN {StealTarget(reg, vc, currentTime)} \ {NoVoice}
    ELSE {}

\* the retrigger fade of noteOn on the voices ids
FadeOut(vc, ids, currentTime) ==
    [id \in DOMAIN vc |->
        IF id \in ids
        THEN [vc[id] EXCEPT
                !.gain = [kind |-> "fade", start |-> currentTime,
                          end |-> currentTime + FadeOutTime],
                !.leftStop = {currentTime + FadeOutTime},
                !.rightStop = {currentTime + FadeOutTime}]
        ELSE vc[id]]

\* the Voice object playStereoPair returns
NewVoice(id, midiNote, velocity, zones, startTime) ==
    [id |-> id, midiNote |-> midiNote, velocity |-> velocity,
     startTime |-> startTime, releaseTime |-> {}, isReleasing |-> FALSE,
     zones |-> zones, leftStop |-> {}, rightStop |-> {},
     gain |-> [kind |-> "none", start |-> startTime, end |-> startTime],
     gainConnected |-> TRUE, mergerConnected |-> TRUE]

RemoveAt(s, i) == SubSeq(s, 1, i - 1) \o SubSeq(s, i + 1, Len(s))

\* config.maxPolyphony || 64 in the constructor
MaxPolyphonyOf(config) == IF config = 0 THEN DefaultMaxPolyphony ELSE config

\* SoundEngine.getStats
GetStats ==
    [activeVoices |-> TotalVoices(voices),
     sustainedNotes |-> Cardinality(sustainedNotes),
     sustainPedalDown |-> sustainPedal,
     maxPolyphony |-> maxPolyphony]

\* -------------------------------------------------------- the sample cache
\* config.maxCacheSize || 150 in the constructor of SampleManager
MaxCacheSizeOf(config) == IF config = 0 THEN DefaultMaxCacheSize ELSE config

\* buffer.length * buffer.numberOfChannels * 4 of the mono buffer of a sample
BufferSize(sampleId) == SampleLength(sampleId) * 1 * BytesPerFloat

\* this.cache.get(sampleId), as the index of the entry or 0
CacheGet(c, sampleId) ==
    LET hits == {i \in 1..Len(c) : c[i].id = sampleId}
    IN  IF hits = {} THEN 0 ELSE CHOOSE i \in hits : TRUE

\* cached.lastAccessed = Date.now()
Touch(c, sampleId, t) == [c EXCEPT ![CacheGet(c, sampleId)].lastAccessed = t]

\* the use order after sampleId was used
UsedLast(u, sampleId) == SelectSeq(u, LAMBDA x : x # sampleId) \o <<sampleId>>

RECURSIVE OldestScan(_, _, _, _)
\* the loop of evictLRU from entry i on; oldestTime starts at Infinity, so
\* the first entry is always taken
OldestScan(c, i, oldestId, oldestTime) ==
    IF i > Len(c) THEN oldestId
    ELSE IF oldestId = NoSample \/ c[i].lastAccessed < oldestTime
    THEN OldestScan(c, i + 1, c[i].id, c[i].lastAccessed)
    ELSE OldestScan(c, i + 1, oldestId, oldestTime)

\* evictLRU deleting the entry inserted first
FirstId(c) == IF c = <<>> THEN NoSample ELSE c[1].id

\* the id evictLRU deletes, NoSample for an empty cache
OldestId(c) == OldestScan(c, 1, NoSample, 0)

\* SampleManager.evictLRU on the entries
EvictLRU(c) == SelectSeq(c, LAMBDA e : e.id # OldestId(c))

RECURSIVE EvictedWhileFull(_, _)
\* the ids the while loop of addToCache evicts, in order
EvictedWhileFull(c, maxSize) ==
    IF Len(c) >= maxSize /\ c # <<>>
    THEN <<OldestId(c)>> \o EvictedWhileFull(EvictLRU(c), maxSize)
    ELSE <<>>

\* addToCache without the eviction loop
AddToCacheUnbounded(c, total, maxSize, sampleId, t) ==
    [cache |-> IF CacheGet(c, sampleId) # 0
               THEN [c EXCEPT ![CacheGet(c, sampleId)] =
                        [id |-> sampleId, lastAccessed |-> t,
                         size |-> BufferSize(sampleId)]]
               ELSE Append(c, [id |-> sampleId, lastAccessed |-> t,
                               size |-> BufferSize(sampleId)]),
     total |-> total + BufferSize(sampleId),
     evicted |-> <<>>]

\* SampleManager.addToCache: the entries, the byte total and the evicted ids.
\* Map.set on a resident key replaces the value and keeps its place.
AddToCache(c, total, maxSize, sampleId, t) ==
    LET evicted == EvictedWhileFull(c, maxSize)
        gone == {evicted[i] : i \in 1..Len(evicted)}
        kept == SelectSeq(c, LAMBDA e : e.id \notin gone)
        freed == LET RECURSIVE Sum(_)
                     Sum(k) == IF k = 0 THEN 0
                               ELSE c[CacheGet(c, evicted[k])].size + Sum(k - 1)
                 IN  Sum(Len(evicted))
        entry == [id |-> sampleId, lastAccessed |-> t,
                  size |-> BufferSize(sampleId)]
    IN  [cache |-> IF CacheGet(kept, sampleId) # 0
                   THEN [kept EXCEPT ![CacheGet(kept, sampleId)] = entry]
                   ELSE Append(kept, entry),
         total |-> total - freed + BufferSize(sampleId),
         evicted |-> evicted]

\* loadSample up to its await, on the state st of the cache: a hit
\* refreshes the entry, a miss on a sample of the bank suspends the call,
\* a miss on any other id rejects
LoadSampleSync(st, sampleId, t) ==
    IF CacheGet(st.cache, sampleId) # 0
    THEN [st EXCEPT !.cache = Touch(@, sampleId, t),
                    !.used = UsedLast(@, sampleId)]
    ELSE IF ~HasSampleData(sampleId) THEN st
    ELSE [st EXCEPT !.loading = Append(@, sampleId)]

RECURSIVE LoadSamplesSync(_, _, _)
\* loadSample called for each id of ids in turn, none awaited in between
\* (sampleIds.map in preloadSamples, Promise.all in playStereoPair)
LoadSamplesSync(st, ids, t) ==
    IF ids = <<>> THEN st
    ELSE LoadSamplesSync(LoadSampleSync(st, Head(ids), t), Tail(ids), t)

\* the steps that ask the sample manager for a sample
RequestOps == {"loadSample", "loadSampleHit", "loadSampleRejected",
               "getSampleHit", "getSampleMiss", "preloadSamples",
               "playStereoPair"}

\* what the last step of the sample manager did, and whether a sample has
\* been asked for since the construction
CacheDid(op, ids, evicted) ==
    [op |-> op, ids |-> ids, evicted |-> evicted,
     asked |-> IF op = "new" THEN FALSE
               ELSE cacheLast.asked \/ op \in RequestOps]

\* SampleManager.getCacheStats, the byte total in bytes
GetCacheStats ==
    [size |-> Len(cache), maxSize |-> maxCacheSize,
     memoryUsage |-> totalMemoryUsage]

\* a constructor that materializes sample 0
SampleManagerPreloaded(config) ==
    /\ cache = <<[id |-> 0, lastAccessed |-> 0, size |-> BufferSize(0)]>>
    /\ maxCacheSize = MaxCacheSizeOf(config)
    /\ totalMemoryUsage = BufferSize(0)
    /\ wallClock = 0
    /\ loading = <<>>
    /\ used = <<0>>
    /\ cacheLast = CacheDid("new", <<>>, <<>>)

\* no noteOn has been asked of the engine
NothingPlayed ==
    [midiNote |-> 0, velocity |-> 0, outcome |-> "none", sources |-> {},
     gain |-> {}]

\* the SampleManager after its constructor
SampleManagerNew(config) ==
    /\ cache = <<>>
    /\ maxCacheSize = MaxCacheSizeOf(config)
    /\ totalMemoryUsage = 0
    /\ wallClock = 0
    /\ loading = <<>>
    /\ used = <<>>
    /\ cacheLast = CacheDid("new", <<>>, <<>>)

\* ------------------------------------------------------------------- Init
\* nothing has happened in front of the engine
NothingInFront ==
    [op |-> "new", message |-> <<>>, handled |-> FALSE, emitted |-> <<>>,
     wasOpen |-> {}, open |-> {}, call |-> <<>>, started |-> {},
     matched |-> {}]

\* the MIDIManager after its constructor
MIDIManagerNew == midiManager = [activeNotes |-> {}, isPaused |-> FALSE]

\* the MIDIStore after its constructor
MIDIStoreNew ==
    midiStore = [activeKeys |-> {}, isSustainPedalDown |-> FALSE,
                 sustainedKeys |-> {}]

\* the AudioEngine, the two managers and the stores as they are created,
\* with the display mode of the settings
FrontNewIn(mode) ==
    /\ transpose = 0
    /\ MIDIManagerNew
    /\ MIDIStoreNew
    /\ keyboardDisplayMode = mode
    /\ sustainPedalDown = FALSE
    /\ frontLast = NothingInFront

FrontNew == FrontNewIn("sustained")

\* the SoundEngine after its constructor
SoundEngineNew(config) ==
    /\ voices = <<>>
    /\ voice = <<>>
    /\ sustainPedal = FALSE
    /\ sustainedNotes = {}
    /\ maxPolyphony = MaxPolyphonyOf(config)
    /\ now = 0
    /\ nextId = 1
    /\ pending = <<>>
    /\ last = Did("init", 0, {}, {}, 0)
    /\ played = NothingPlayed

\* no function of the bank code has been called
NothingCalled ==
    /\ asked = <<>>
    /\ answer = <<>>

\* AudioEngine.initialize: the sample manager, then the engine
Init ==
    /\ SampleManagerNew(0)
    /\ \E c \in PolyphonyConfigs : SoundEngineNew(c)
    /\ NothingCalled
    /\ FrontNew

\* ---------------------------------------------------------------- actions
\* noteOn up to the await of the sample buffers in playStereoPair
NoteOnCall(midiNote, velocity) ==
    /\ nextId + Len(pending) <= MaxVoices
    /\ IF \/ midiNote < MinNote \/ midiNote > MaxNote
          \/ velocity < MinVelocity \/ velocity > MaxVelocity
          \/ SelectZones(midiNote, velocity) = <<>>
       THEN /\ last' = Did("noteOnRejected", midiNote, {}, {}, now)
            /\ UNCHANGED <<voices, voice, sustainPedal, sustainedNotes,
                           maxPolyphony, now, nextId, pending>>
       ELSE LET zones == SelectZones(midiNote, velocity)
                existingVoices == SeqToSet(VoicesOf(voices, midiNote))
                faded == FadeOut(voice, existingVoices, now)
                stolen == CheckPolyphonyLimit(voices, faded, maxPolyphony, now)
                stopped == IF stolen = {} THEN faded
                           ELSE LET t == CHOOSE x \in stolen : TRUE
                                IN  Disconnect(StopSources(faded, {t}, now), t)
            IN  /\ voice' = Drop(stopped, stolen)
                /\ voices' = IF stolen = {} THEN voices
                             ELSE SpliceVoice(voices, CHOOSE x \in stolen : TRUE)
                /\ sustainedNotes' =
                       IF stolen = {} THEN sustainedNotes
                       ELSE SustainAfterRemove(voices, sustainedNotes,
                                               CHOOSE x \in stolen : TRUE)
                /\ pending' = IF StereoPairPlayable(zones)
                              THEN Append(pending,
                                          [midiNote |-> midiNote,
                                           velocity |-> velocity,
                                           zones |-> zones])
                              ELSE pending
                /\ last' = Did(IF StereoPairPlayable(zones)
                               THEN "noteOn" ELSE "noteOnFailed",
                               midiNote, stolen,
                               {stopped[id] : id \in stolen}, now)
                /\ UNCHANGED <<sustainPedal, maxPolyphony, now, nextId>>

\* noteOn after the await: playStereoPair starts the sources and returns the
\* voice, noteOn registers it
NoteOnResume(i) ==
    /\ i \in 1..Len(pending)
    /\ LET p == pending[i]
       IN  /\ voice' = [id \in DOMAIN voice \cup {nextId} |->
                           IF id = nextId
                           THEN NewVoice(nextId, p.midiNote, p.velocity,
                                         p.zones, now)
                           ELSE voice[id]]
           /\ voices' = PushVoice(voices, p.midiNote, nextId)
           /\ sustainedNotes' = sustainedNotes \ {p.midiNote}
           /\ last' = Did("noteOnDone", p.midiNote, {}, {}, now)
    /\ nextId' = nextId + 1
    /\ pending' = RemoveAt(pending, i)
    /\ UNCHANGED <<sustainPedal, maxPolyphony, now>>

\* noteOff releasing whatever the pedal
NoteOffIgnoresPedal(midiNote, read) ==
    /\ voice' = ReleaseNote(voice, voices, midiNote, now, read)
    /\ last' = Did("noteOff", midiNote, {}, {}, now)
    /\ UNCHANGED <<voices, sustainPedal, sustainedNotes, maxPolyphony, now,
                   nextId, pending>>

\* noteOff holding the note whatever the pedal
NoteOffHoldsAlways(midiNote, read) ==
    /\ IF VoicesOf(voices, midiNote) = <<>>
       THEN UNCHANGED sustainedNotes
       ELSE sustainedNotes' = sustainedNotes \cup {midiNote}
    /\ last' = Did("noteOff", midiNote, {}, {}, now)
    /\ UNCHANGED <<voices, voice, sustainPedal, maxPolyphony, now, nextId,
                   pending>>

\* SoundEngine.noteOff
NoteOff(midiNote, read) ==
    /\ IF VoicesOf(voices, midiNote) = <<>>
       THEN UNCHANGED <<voice, sustainedNotes>>
       ELSE IF sustainPedal
       THEN /\ sustainedNotes' = sustainedNotes \cup {midiNote}
            /\ UNCHANGED voice
       ELSE /\ voice' = ReleaseNote(voice, voices, midiNote, now, read)
            /\ UNCHANGED sustainedNotes
    /\ last' = Did("noteOff", midiNote, {}, {}, now)
    /\ UNCHANGED <<voices, sustainPedal, maxPolyphony, now, nextId, pending>>

\* SoundEngine.setSustainPedal
SetSustainPedal(isDown, read) ==
    /\ sustainPedal' = isDown
    /\ IF ~isDown
       THEN /\ voice' = ReleaseNotes(voice, voices, sustainedNotes, now, read)
            /\ sustainedNotes' = {}
       ELSE UNCHANGED <<voice, sustainedNotes>>
    /\ last' = Did(IF isDown THEN "pedalDown" ELSE "pedalUp", 0, {}, {}, now)
    /\ UNCHANGED <<voices, maxPolyphony, now, nextId, pending>>

\* allNotesOff leaving the notes the pedal holds
AllNotesOffHeldOnly(read) ==
    /\ voice' = ReleaseNotes(voice, voices,
                             RegisteredNotes(voices) \ sustainedNotes, now, read)
    /\ sustainedNotes' = {}
    /\ last' = Did("allNotesOff", 0, {}, {}, now)
    /\ UNCHANGED <<voices, sustainPedal, maxPolyphony, now, nextId, pending>>

\* SoundEngine.allNotesOff
AllNotesOff(read) ==
    /\ voice' = ReleaseNotes(voice, voices, RegisteredNotes(voices), now, read)
    /\ sustainedNotes' = {}
    /\ last' = Did("allNotesOff", 0, {}, {}, now)
    /\ UNCHANGED <<voices, sustainPedal, maxPolyphony, now, nextId, pending>>

\* panic without sustainedNotes.clear()
PanicKeepsSustain ==
    /\ voice' = <<>>
    /\ voices' = <<>>
    /\ last' = Did("panic", 0, {},
                   LET stopped == StopSources(voice, RegisteredIds(voices), now)
                   IN  {stopped[id] : id \in RegisteredIds(voices)}, now)
    /\ UNCHANGED <<sustainPedal, sustainedNotes, maxPolyphony, now, nextId,
                   pending>>

\* SoundEngine.panic
Panic ==
    /\ voice' = <<>>
    /\ voices' = <<>>
    /\ sustainedNotes' = {}
    /\ last' = Did("panic", 0, {},
                   LET stopped == StopSources(voice, RegisteredIds(voices), now)
                   IN  {stopped[id] : id \in RegisteredIds(voices)}, now)
    /\ UNCHANGED <<sustainPedal, maxPolyphony, now, nextId, pending>>

\* leftSource.onended of a registered voice: its buffer has played to the
\* end or a stop deadline has passed, and the handler calls removeVoice
OnEnded(id) ==
    /\ id \in DOMAIN voice
    /\ voices' = SpliceVoice(voices, id)
    /\ sustainedNotes' = SustainAfterRemove(voices, sustainedNotes, id)
    /\ voice' = Drop(voice, {id})
    /\ last' = Did("onended", voice[id].midiNote, {},
                   {Disconnect(voice, id)[id]}, now)
    /\ UNCHANGED <<sustainPedal, maxPolyphony, now, nextId, pending>>

\* the audio clock advances; while a noteOn awaits its sample buffers it
\* advances by no more than ShortGap
Tick(t) ==
    /\ t > now
    /\ pending = <<>> \/ t - now <= ShortGap
    /\ now' = t
    /\ last' = Did("tick", 0, {}, {}, now)
    /\ UNCHANGED <<voices, voice, sustainPedal, sustainedNotes, maxPolyphony,
                   nextId, pending>>

\* no noteOn is suspended: every noteOn has completed before the next call
Idle == pending = <<>>

\* The engine alone: the sample manager finds every sample of the bank
\* (HasSampleData) and its cache is left out.
Next ==
    \/ \E n \in Notes, v \in Velocities :
          Idle /\ NoteOnCall(n, v) /\ UNCHANGED samplerVars
    \/ \E i \in 1..Len(pending) : NoteOnResume(i) /\ UNCHANGED samplerVars
    \/ \E n \in Notes, r \in BOOLEAN :
          Idle /\ NoteOff(n, r) /\ UNCHANGED samplerVars
    \/ \E b \in BOOLEAN, r \in BOOLEAN :
          Idle /\ SetSustainPedal(b, r) /\ UNCHANGED samplerVars
    \/ \E r \in BOOLEAN : Idle /\ AllNotesOff(r) /\ UNCHANGED samplerVars
    \/ Idle /\ Panic /\ UNCHANGED samplerVars
    \/ \E id \in DOMAIN voice : OnEnded(id) /\ UNCHANGED samplerVars
    \/ \E t \in ClockPoints : Tick(t) /\ UNCHANGED samplerVars

Spec == Init /\ [][Next]_vars


\* ------------------------------------------------------ the sample manager
\* the cache as loadSample reads and writes it
CacheState == [cache |-> cache, used |-> used, loading |-> loading]

\* SampleManager.loadSample up to the await of createAudioBuffer
LoadSample(sampleId) ==
    /\ Len(loading) < MaxLoading
    /\ totalMemoryUsage <= MaxBytes
    /\ LET st == LoadSampleSync(CacheState, sampleId, wallClock)
       IN  /\ cache' = st.cache
           /\ used' = st.used
           /\ loading' = st.loading
    /\ cacheLast' = CacheDid(IF CacheGet(cache, sampleId) # 0
                             THEN "loadSampleHit"
                             ELSE IF HasSampleData(sampleId)
                             THEN "loadSample" ELSE "loadSampleRejected",
                             <<sampleId>>, <<>>)
    /\ UNCHANGED <<maxCacheSize, totalMemoryUsage, wallClock>>

\* loadSample after the await: addToCache.  The suspended calls resume in
\* the order of their calls.
LoadSampleResume ==
    /\ loading # <<>>
    /\ LET sampleId == Head(loading)
           r == AddToCache(cache, totalMemoryUsage, maxCacheSize, sampleId,
                           wallClock)
           gone == {r.evicted[i] : i \in 1..Len(r.evicted)}
       IN  /\ cache' = r.cache
           /\ totalMemoryUsage' = r.total
           /\ used' = UsedLast(SelectSeq(used, LAMBDA x : x \notin gone),
                               sampleId)
           /\ cacheLast' = CacheDid("loadSampleDone", <<sampleId>>, r.evicted)
    /\ loading' = Tail(loading)
    /\ UNCHANGED <<maxCacheSize, wallClock>>

\* SampleManager.getSample
GetSample(sampleId) ==
    /\ IF CacheGet(cache, sampleId) # 0
       THEN /\ cache' = Touch(cache, sampleId, wallClock)
            /\ used' = UsedLast(used, sampleId)
            /\ cacheLast' = CacheDid("getSampleHit", <<sampleId>>, <<>>)
       ELSE /\ UNCHANGED <<cache, used>>
            /\ cacheLast' = CacheDid("getSampleMiss", <<sampleId>>, <<>>)
    /\ UNCHANGED <<maxCacheSize, totalMemoryUsage, wallClock, loading>>

\* SampleManager.preloadSamples up to its await
PreloadSamples(sampleIds) ==
    /\ Len(loading) + Len(sampleIds) <= MaxLoading
    /\ totalMemoryUsage <= MaxBytes
    /\ LET st == LoadSamplesSync(CacheState, sampleIds, wallClock)
       IN  /\ cache' = st.cache
           /\ used' = st.used
           /\ loading' = st.loading
    /\ cacheLast' = CacheDid("preloadSamples", sampleIds, <<>>)
    /\ UNCHANGED <<maxCacheSize, totalMemoryUsage, wallClock>>

\* SampleManager.clearCache
ClearCache ==
    /\ cache' = <<>>
    /\ totalMemoryUsage' = 0
    /\ used' = <<>>
    /\ cacheLast' = CacheDid("clearCache", <<>>, <<>>)
    /\ UNCHANGED <<maxCacheSize, wallClock, loading>>

\* Date.now() advances by a millisecond
WallTick ==
    /\ wallClock < MaxWallClock
    /\ wallClock' = wallClock + 1
    /\ cacheLast' = CacheDid("tick", <<>>, <<>>)
    /\ UNCHANGED <<cache, maxCacheSize, totalMemoryUsage, loading, used>>

\* the id lists given to preloadSamples
PreloadLists == {<<a, b>> : a \in SampleIds, b \in SampleIds}

CacheInit ==
    /\ \E c \in CacheConfigs : SampleManagerNew(c)
    /\ SoundEngineNew(0)
    /\ NothingCalled
    /\ FrontNew

CacheNext ==
    \/ \E id \in SampleIds : LoadSample(id) /\ UNCHANGED <<engineVars, played, callVars, frontVars>>
    \/ LoadSampleResume /\ UNCHANGED <<engineVars, played, callVars, frontVars>>
    \/ \E id \in SampleIds : GetSample(id) /\ UNCHANGED <<engineVars, played, callVars, frontVars>>
    \/ \E ids \in PreloadLists : PreloadSamples(ids) /\ UNCHANGED <<engineVars, played, callVars, frontVars>>
    \/ ClearCache /\ UNCHANGED <<engineVars, played, callVars, frontVars>>
    \/ WallTick /\ UNCHANGED <<engineVars, played, callVars, frontVars>>

CacheSpec == CacheInit /\ [][CacheNext]_vars

\* ------------------------------------------- noteOn down to the samples
\* zone.generators.fineTune || 0
FineTune(zone) == IF zone.fineTune = {} THEN 0 ELSE CHOOSE c \in zone.fineTune : TRUE

\* PitchCalculator.calculatePlaybackRate, as the cents of the power of two
\* and the two rates of the sample-rate factor
PlaybackRate(midiNote, sampleId, zone) ==
    [cents |-> (midiNote - OriginalPitch(sampleId)) * CentsPerSemitone
                   + PitchCorrection(sampleId) + FineTune(zone),
     sampleRate |-> SampleRate(sampleId),
     contextRate |-> ContextRate]

\* playStereoPair without the test of the sample ids
PairErrorNoIdTest(zones) ==
    LET leftZone == FindPan(zones, PanLeft)
        rightZone == FindPan(zones, PanRight)
    IN  IF leftZone = {} \/ rightZone = {} THEN "pair"
        ELSE IF \E z \in leftZone \cup rightZone :
                   \E sid \in z.sampleId : ~HasSampleData(sid)
        THEN "sample"
        ELSE ""

\* why playStereoPair throws or rejects, "" when it does not: no zone of
\* one pan, no sample id in one of the two zones, or a loadSample that
\* rejects
PairError(zones) ==
    LET leftZone == FindPan(zones, PanLeft)
        rightZone == FindPan(zones, PanRight)
    IN  IF leftZone = {} \/ rightZone = {} THEN "pair"
        ELSE IF \E z \in leftZone \cup rightZone : z.sampleId = {}
        THEN "sampleId"
        ELSE IF \E z \in leftZone \cup rightZone :
                   \E sid \in z.sampleId : ~HasSampleData(sid)
        THEN "sample"
        ELSE ""

\* the sample id of the zone of this pan, NoSample when it is undefined
SampleIdOf(zones, pan) ==
    LET ids == UNION {z.sampleId : z \in FindPan(zones, pan)}
    IN  IF ids = {} THEN NoSample ELSE CHOOSE sid \in ids : TRUE

\* playStereoPair giving each source the rate of its own zone and sample
StereoSourcesOwnRates(midiNote, zones, startTime) ==
    {[channel |-> IF pan = PanLeft THEN 0 ELSE 1,
      buffer |-> SampleIdOf(zones, pan),
      playbackRate |-> PlaybackRate(midiNote, SampleIdOf(zones, pan),
                                    CHOOSE z \in FindPan(zones, pan) : TRUE),
      loop |-> FALSE,
      start |-> startTime] : pan \in {PanLeft, PanRight}}

\* the two buffer sources playStereoPair creates, sets up and starts
StereoSources(midiNote, zones, startTime) ==
    LET leftZone == CHOOSE z \in FindPan(zones, PanLeft) : TRUE
        playbackRate == PlaybackRate(midiNote, SampleIdOf(zones, PanLeft),
                                     leftZone)
    IN  {[channel |-> 0, buffer |-> SampleIdOf(zones, PanLeft),
          playbackRate |-> playbackRate, loop |-> FALSE, start |-> startTime],
         [channel |-> 1, buffer |-> SampleIdOf(zones, PanRight),
          playbackRate |-> playbackRate, loop |-> FALSE, start |-> startTime]}

\* Math.pow(velocity / 127, 2) as a fraction
VelocityGain(velocity) ==
    [num |-> velocity * velocity, den |-> VelocityScale * VelocityScale]

\* the checks of noteOn that return before anything is done
Rejects(midiNote, velocity) ==
    \/ midiNote < MinNote \/ midiNote > MaxNote
    \/ velocity < MinVelocity \/ velocity > MaxVelocity
    \/ SelectZones(midiNote, velocity) = <<>>

\* what a noteOn asks of the sample manager: nothing when it is rejected or
\* playStereoPair throws, else loadSample for the left and the right sample
NoteOnLoads(midiNote, velocity) ==
    LET zones == SelectZones(midiNote, velocity)
    IN  IF Rejects(midiNote, velocity) \/ PairError(zones) \in {"pair", "sampleId"}
        THEN UNCHANGED cacheVars
        ELSE LET st == LoadSamplesSync(CacheState,
                                       <<SampleIdOf(zones, PanLeft),
                                         SampleIdOf(zones, PanRight)>>,
                                       wallClock)
             IN  /\ cache' = st.cache
                 /\ used' = st.used
                 /\ loading' = st.loading
                 /\ cacheLast' = CacheDid("playStereoPair",
                                          <<SampleIdOf(zones, PanLeft),
                                            SampleIdOf(zones, PanRight)>>, <<>>)
                 /\ UNCHANGED <<maxCacheSize, totalMemoryUsage, wallClock>>

\* noteOn up to the await of the sample buffers, with what it asks of the
\* sample manager
PlayNoteOn(midiNote, velocity) ==
    /\ loading = <<>>
    /\ NoteOnCall(midiNote, velocity)
    /\ NoteOnLoads(midiNote, velocity)
    /\ played' = [midiNote |-> midiNote, velocity |-> velocity,
                  outcome |-> IF Rejects(midiNote, velocity) THEN "rejected"
                              ELSE IF PairError(SelectZones(midiNote, velocity)) # ""
                              THEN "error" ELSE "suspended",
                  sources |-> {}, gain |-> {}]
    /\ UNCHANGED <<callVars, frontVars>>

\* noteOn after the await, once both buffers are loaded: playStereoPair
\* creates and starts the sources and noteOn registers the voice
PlayNoteOnResume(i) ==
    /\ loading = <<>>
    /\ NoteOnResume(i)
    /\ played' = [midiNote |-> pending[i].midiNote,
                  velocity |-> pending[i].velocity,
                  outcome |-> "voice",
                  sources |-> StereoSources(pending[i].midiNote,
                                            pending[i].zones, now),
                  gain |-> {VelocityGain(pending[i].velocity)}]
    /\ UNCHANGED <<cacheVars, callVars, frontVars>>

\* the notes and velocities asked of the engine: a note below and one above
\* the keyboard, a velocity below and one above the range, a velocity with
\* no zone, the notes whose zones are no stereo pair, and two that play
PlayInputs ==
    {<<20, 100>>, <<109, 100>>, <<60, -1>>, <<60, 128>>, <<61, 0>>,
     <<64, 100>>, <<65, 100>>, <<66, 100>>, <<67, 100>>,
     <<60, 100>>, <<61, 100>>}
PlayOffNotes == {60}
PlayClockPoints == {ShortGap}

PlayInit ==
    /\ \E c \in CacheConfigs : SampleManagerNew(c)
    /\ SoundEngineNew(1)
    /\ NothingCalled
    /\ FrontNew

PlayNext ==
    \/ \E in \in PlayInputs : Idle /\ PlayNoteOn(in[1], in[2])
    \/ \E i \in 1..Len(pending) : PlayNoteOnResume(i)
    \/ LoadSampleResume /\ UNCHANGED <<engineVars, played, callVars, frontVars>>
    \/ \E n \in PlayOffNotes, r \in BOOLEAN :
          Idle /\ NoteOff(n, r) /\ UNCHANGED samplerVars
    \/ \E b \in BOOLEAN, r \in BOOLEAN :
          Idle /\ SetSustainPedal(b, r) /\ UNCHANGED samplerVars
    \/ \E t \in PlayClockPoints : Tick(t) /\ UNCHANGED samplerVars

PlaySpec == PlayInit /\ [][PlayNext]_vars

\* ------------------------------------------------ a stop() that can raise
\* The engine on a platform where a second stop request on a source raises
\* "already stopped" (the condition the catch blocks of noteOn,
\* stealOldestVoice and panic name).  A voice whose sources were asked to
\* stop has both deadlines set, so leftSource.stop() is the call that raises
\* and rightSource.stop() after it is not reached.
StopRaises(v) == v.leftStop # {}

\* the body of the loop of releaseNote up to the leftSource.stop() that
\* raises: the voice is marked and its gain scheduled, its stop deadlines and
\* releaseTime are as they were
ReleaseVoiceRaising(v, currentTime, read) ==
    [v EXCEPT
       !.isReleasing = TRUE,
       !.gain = IF GainNearSilent(v, read)
                THEN [kind |-> "linear", start |-> currentTime,
                      end |-> currentTime + LinearRampTime]
                ELSE [kind |-> "exponential", start |-> currentTime,
                      end |-> currentTime + GetReleaseTime(v)]]

RECURSIVE ReleaseLoop(_, _, _, _)
\* the loop of releaseNote over the voices ids of a note, in array order: a
\* raise leaves the loop, and the function, at once
ReleaseLoop(vc, ids, currentTime, read) ==
    IF ids = <<>> THEN [vc |-> vc, raised |-> FALSE]
    ELSE LET id == Head(ids)
         IN  IF vc[id].isReleasing
             THEN ReleaseLoop(vc, Tail(ids), currentTime, read)
             ELSE IF StopRaises(vc[id])
             THEN [vc |-> [vc EXCEPT ![id] = ReleaseVoiceRaising(
                                                 vc[id], currentTime, read)],
                   raised |-> TRUE]
             ELSE ReleaseLoop([vc EXCEPT ![id] = ReleaseVoice(
                                                     vc[id], currentTime, read)],
                              Tail(ids), currentTime, read)

RECURSIVE ReleaseNotesLoop(_, _, _, _, _)
\* releaseNote for each note of a loop over the sequence notes, up to the
\* first raise
ReleaseNotesLoop(vc, reg, notes, currentTime, read) ==
    IF notes = <<>> THEN [vc |-> vc, raised |-> FALSE]
    ELSE LET r == ReleaseLoop(vc, VoicesOf(reg, Head(notes)), currentTime, read)
         IN  IF r.raised THEN r
             ELSE ReleaseNotesLoop(r.vc, reg, Tail(notes), currentTime, read)

\* the orders in which a loop can visit the Set notes
Orders(notes) ==
    {f \in [1..Cardinality(notes) -> notes] : \A n \in notes : \E i \in DOMAIN f : f[i] = n}

\* source.stop(when) inside a try block on both sources of the voices ids:
\* the voices that raise keep their deadlines
StopSourcesCaught(vc, ids, when) ==
    [id \in DOMAIN vc |->
        IF id \in ids /\ ~StopRaises(vc[id])
        THEN [vc[id] EXCEPT !.leftStop = {when}, !.rightStop = {when}]
        ELSE vc[id]]

\* the retrigger fade of noteOn on the voices ids: the gain is scheduled
\* before the stop requests, which are inside the try block
FadeOutCaught(vc, ids, currentTime) ==
    [id \in DOMAIN vc |->
        IF id \in ids
        THEN [vc[id] EXCEPT
                !.gain = [kind |-> "fade", start |-> currentTime,
                          end |-> currentTime + FadeOutTime],
                !.leftStop = IF StopRaises(vc[id]) THEN @
                             ELSE {currentTime + FadeOutTime},
                !.rightStop = IF StopRaises(vc[id]) THEN @
                              ELSE {currentTime + FadeOutTime}]
        ELSE vc[id]]

\* noteOn up to the await of the sample buffers, its stop requests caught
NoteOnCallRaising(midiNote, velocity) ==
    /\ nextId + Len(pending) <= MaxVoices
    /\ SelectZones(midiNote, velocity) # <<>>
    /\ LET zones == SelectZones(midiNote, velocity)
           existingVoices == SeqToSet(VoicesOf(voices, midiNote))
           faded == FadeOutCaught(voice, existingVoices, now)
           stolen == CheckPolyphonyLimit(voices, faded, maxPolyphony, now)
           stopped == IF stolen = {} THEN faded
                      ELSE LET t == CHOOSE x \in stolen : TRUE
                           IN  Disconnect(StopSourcesCaught(faded, {t}, now), t)
       IN  /\ voice' = Drop(stopped, stolen)
           /\ voices' = IF stolen = {} THEN voices
                        ELSE SpliceVoice(voices, CHOOSE x \in stolen : TRUE)
           /\ sustainedNotes' =
                  IF stolen = {} THEN sustainedNotes
                  ELSE SustainAfterRemove(voices, sustainedNotes,
                                          CHOOSE x \in stolen : TRUE)
           /\ pending' = IF StereoPairPlayable(zones)
                         THEN Append(pending,
                                     [midiNote |-> midiNote,
                                      velocity |-> velocity,
                                      zones |-> zones])
                         ELSE pending
           /\ last' = Did(IF StereoPairPlayable(zones)
                          THEN "noteOn" ELSE "noteOnFailed",
                          midiNote, stolen,
                          {stopped[id] : id \in stolen}, now)
           /\ UNCHANGED <<sustainPedal, maxPolyphony, now, nextId>>

\* SoundEngine.noteOff, which does not catch what releaseNote raises
NoteOffRaising(midiNote, read) ==
    /\ IF VoicesOf(voices, midiNote) = <<>>
       THEN /\ UNCHANGED <<voice, sustainedNotes>>
            /\ last' = Did("noteOff", midiNote, {}, {}, now)
       ELSE IF sustainPedal
       THEN /\ sustainedNotes' = sustainedNotes \cup {midiNote}
            /\ UNCHANGED voice
            /\ last' = Did("noteOff", midiNote, {}, {}, now)
       ELSE LET r == ReleaseLoop(voice, VoicesOf(voices, midiNote), now, read)
            IN  /\ voice' = r.vc
                /\ UNCHANGED sustainedNotes
                /\ last' = Did(IF r.raised THEN "noteOffRaised" ELSE "noteOff",
                               midiNote, {}, {}, now)
    /\ UNCHANGED <<voices, sustainPedal, maxPolyphony, now, nextId, pending>>

\* SoundEngine.setSustainPedal: a raise leaves the function before
\* sustainedNotes.clear()
SetSustainPedalRaising(isDown, read, order) ==
    /\ sustainPedal' = isDown
    /\ IF ~isDown
       THEN LET r == ReleaseNotesLoop(voice, voices, order, now, read)
            IN  /\ voice' = r.vc
                /\ sustainedNotes' = IF r.raised THEN sustainedNotes ELSE {}
                /\ last' = Did(IF r.raised THEN "pedalUpRaised" ELSE "pedalUp",
                               0, {}, {}, now)
       ELSE /\ UNCHANGED <<voice, sustainedNotes>>
            /\ last' = Did("pedalDown", 0, {}, {}, now)
    /\ UNCHANGED <<voices, maxPolyphony, now, nextId, pending>>

\* SoundEngine.allNotesOff: the notes in Map order; a raise leaves the
\* function before sustainedNotes.clear()
AllNotesOffRaising(read) ==
    /\ LET r == ReleaseNotesLoop(voice, voices,
                                 [i \in 1..Len(voices) |-> voices[i].note],
                                 now, read)
       IN  /\ voice' = r.vc
           /\ sustainedNotes' = IF r.raised THEN sustainedNotes ELSE {}
           /\ last' = Did(IF r.raised THEN "allNotesOffRaised"
                          ELSE "allNotesOff", 0, {}, {}, now)
    /\ UNCHANGED <<voices, sustainPedal, maxPolyphony, now, nextId, pending>>

\* SoundEngine.panic, its stop requests caught
PanicRaising ==
    /\ voice' = <<>>
    /\ voices' = <<>>
    /\ sustainedNotes' = {}
    /\ last' = Did("panic", 0, {},
                   LET stopped == StopSourcesCaught(voice, RegisteredIds(voices),
                                                    now)
                   IN  {stopped[id] : id \in RegisteredIds(voices)}, now)
    /\ UNCHANGED <<sustainPedal, maxPolyphony, now, nextId, pending>>

\* the notes and the velocity played on that platform
RaisingNotes == {60, 62}
RaisingVelocities == {100}

RaisingNext ==
    \/ \E n \in RaisingNotes, v \in RaisingVelocities :
          Idle /\ NoteOnCallRaising(n, v) /\ UNCHANGED samplerVars
    \/ \E i \in 1..Len(pending) : NoteOnResume(i) /\ UNCHANGED samplerVars
    \/ \E n \in RaisingNotes, r \in BOOLEAN :
          Idle /\ NoteOffRaising(n, r) /\ UNCHANGED samplerVars
    \/ \E b \in BOOLEAN, r \in BOOLEAN, o \in Orders(sustainedNotes) :
          Idle /\ SetSustainPedalRaising(b, r, o) /\ UNCHANGED samplerVars
    \/ \E r \in BOOLEAN : Idle /\ AllNotesOffRaising(r) /\ UNCHANGED samplerVars
    \/ Idle /\ PanicRaising /\ UNCHANGED samplerVars
    \/ \E id \in DOMAIN voice : OnEnded(id) /\ UNCHANGED samplerVars
    \/ \E t \in ClockPoints : Tick(t) /\ UNCHANGED samplerVars

RaisingSpec == Init /\ [][RaisingNext]_vars


\* --------------------------------------------------------- the bank parser
\* A bank file is modelled by what SF2Parser reads of it: the two tags of
\* the container, the types of its LIST chunks in file order, the id of the
\* first sub-chunk of sdta and the number of 16-bit samples it declares, the
\* sub-chunks of pdta in file order with their sizes in bytes, the sample
\* headers before the terminator of shdr, and whether every bag index of
\* inst and phdr names a bag.  The chunks are laid out back to back, so a
\* list size is 4 plus its sub-chunks.

\* the size in bytes of a record of a pdta sub-chunk
RecordSize(id) ==
    CASE id = "phdr" -> PhdrRecordSize
      [] id = "inst" -> InstRecordSize
      [] id = "shdr" -> ShdrRecordSize
      [] id \in {"pmod", "imod"} -> ModRecordSize
      [] OTHER -> BagRecordSize

\* the 16-bit samples of the smpl chunk: sample i holds the value i
SmplData(blockLength) == [i \in 1..blockLength |-> i - 1]

\* Int16Array.slice(start, end) for start, end >= 0: both are clamped to
\* the length
Slice(data, start, end) ==
    LET clamp(x) == IF x > Len(data) THEN Len(data) ELSE x
    IN  SubSeq(data, clamp(start) + 1, clamp(end))

\* validateRIFF without the test of the form type
ValidateRIFFTagOnly(file) ==
    IF file.riff # "RIFF" THEN "Invalid RIFF header" ELSE ""

\* SF2Parser.validateRIFF: "" or the message of the error thrown
ValidateRIFF(file) ==
    IF file.riff # "RIFF" THEN "Invalid RIFF header"
    ELSE IF file.form # "sfbk" THEN "Invalid sfbk chunk"
    ELSE ""

\* SF2Parser.findChunks: "" or the message of the error thrown
FindChunks(file) ==
    LET types == {file.lists[i] : i \in 1..Len(file.lists)}
    IN  IF "INFO" \notin types THEN "INFO chunk not found"
        ELSE IF "sdta" \notin types THEN "SDTA chunk not found"
        ELSE IF "pdta" \notin types THEN "PDTA chunk not found"
        ELSE ""

\* SF2Parser.parseSDTA: "" or the message of the error thrown
ParseSDTA(file) ==
    IF file.smplId # "smpl" THEN "Expected 'smpl' chunk" ELSE ""

RECURSIVE ListSize(_)
\* the size of the pdta list: its type tag and its sub-chunks
ListSize(subs) ==
    IF subs = <<>> THEN ListTypeSize
    ELSE ChunkHeaderSize + Head(subs).size + ListSize(Tail(subs))

RECURSIVE ScanSubChunks(_, _, _, _)
\* the scan loop of parsePDTA over the sub-chunks from currentOffset (counted
\* from the start of the list) on: chunks[chunkID] = { offset, size }, a
\* later sub-chunk of the same id replacing an earlier one
ScanSubChunks(subs, currentOffset, endOffset, chunks) ==
    IF subs = <<>> \/ ~(currentOffset < endOffset - ChunkHeaderSize) THEN chunks
    ELSE ScanSubChunks(Tail(subs),
                       currentOffset + ChunkHeaderSize + Head(subs).size,
                       endOffset,
                       [id \in DOMAIN chunks \cup {Head(subs).id} |->
                           IF id = Head(subs).id THEN Head(subs).size
                           ELSE chunks[id]])

\* the sub-chunks parsePDTA finds, as a function from id to size
PdtaChunks(file) ==
    ScanSubChunks(file.pdta, ChunkHeaderSize + ListTypeSize,
                  ChunkHeaderSize + ListSize(file.pdta), <<>>)

\* requiredChunks of parsePDTA, in the order of the test
RequiredChunks == <<"phdr", "pbag", "pgen", "inst", "ibag", "igen", "shdr">>

\* the test of the required chunks: "" or the message of the error thrown
MissingChunk(chunks) ==
    LET missing == {i \in 1..Len(RequiredChunks) :
                       RequiredChunks[i] \notin DOMAIN chunks}
    IN  IF missing = {} THEN ""
        ELSE LET first == CHOOSE i \in missing : \A j \in missing : i <= j
             IN  "Required PDTA chunk not found: " \o RequiredChunks[first]

\* the last record of shdr, all zero after its name
TerminatorHeader ==
    [start |-> 0, end |-> 0, startLoop |-> 0, endLoop |-> 0, sampleRate |-> 0,
     originalPitch |-> 0, pitchCorrection |-> 0]

\* SF2Parser.parseSampleHeaders: the headers read of a shdr chunk of this
\* size, i < count - 1 with count = size / 46
ParseSampleHeaders(file, size) ==
    LET read == {i \in 0..Len(file.headers) :
                    i * ShdrRecordSize < size - ShdrRecordSize}
    IN  [i \in 1..Cardinality(read) |->
            IF i <= Len(file.headers) THEN file.headers[i] ELSE TerminatorHeader]

\* the test of the indices without end > smplData.length
InvalidIndicesNoEnd(header, length) ==
    \/ header.start < 0 \/ header.end < 0
    \/ header.start >= length
    \/ header.start >= header.end

\* the test of the indices of a header in the loop of parsePDTA
InvalidIndices(header, length) ==
    \/ header.start < 0 \/ header.end < 0
    \/ header.start >= length \/ header.end > length
    \/ header.start >= header.end

\* the sample pushed for an invalid header
EmptySample(header) ==
    [data |-> <<>>,
     header |-> [start |-> 0, end |-> 0, startLoop |-> 0, endLoop |-> 0,
                 sampleRate |-> IF header.sampleRate = 0
                                THEN DefaultSampleRate ELSE header.sampleRate,
                 originalPitch |-> IF header.originalPitch = 0
                                   THEN DefaultOriginalPitch
                                   ELSE header.originalPitch,
                 pitchCorrection |-> 0]]

\* the loop body of parsePDTA: the sample pushed for a header
SampleOf(header, smplData) ==
    IF InvalidIndices(header, Len(smplData)) THEN EmptySample(header)
    ELSE [data |-> Slice(smplData, header.start, header.end),
          header |-> header]

\* SF2Parser.parsePDTA up to the samples: the error thrown or the samples
ParsePDTA(file) ==
    LET chunks == PdtaChunks(file)
    IN  IF MissingChunk(chunks) # ""
        THEN [error |-> MissingChunk(chunks), samples |-> <<>>]
        ELSE LET sampleHeaders == ParseSampleHeaders(file, chunks["shdr"])
                 smplData == SmplData(file.blockLength)
             IN  IF ~file.bagsInRange
                 THEN [error |-> "Cannot read properties of undefined",
                       samples |-> <<>>]
                 ELSE [error |-> "",
                       samples |-> [i \in 1..Len(sampleHeaders) |->
                                       SampleOf(sampleHeaders[i], smplData)]]

\* SF2Parser.parse: the error it throws, as {message}, or the bank it
\* returns, as {bank}; the other of the two is empty
Parse(file) ==
    LET message ==
            IF ValidateRIFF(file) # "" THEN ValidateRIFF(file)
            ELSE IF FindChunks(file) # "" THEN FindChunks(file)
            ELSE IF ParseSDTA(file) # "" THEN ParseSDTA(file)
            ELSE ParsePDTA(file).error
    IN  IF message # ""
        THEN [error |-> {"SF2 Parse Error: " \o message}, data |-> {}]
        ELSE [error |-> {}, data |-> {[samples |-> ParsePDTA(file).samples]}]

\* the sub-chunks of a pdta list with these ids, each holding its
\* terminator record alone but shdr, which holds the headers before it
SubChunks(ids, headers) ==
    [i \in 1..Len(ids) |->
        [id |-> ids[i],
         size |-> RecordSize(ids[i])
                      * (IF ids[i] = "shdr" THEN Len(headers) + 1 ELSE 1)]]

BankFile(riff, form, lists, smplId, blockLength, subs, headers, bagsInRange) ==
    [riff |-> riff, form |-> form, lists |-> lists, smplId |-> smplId,
     blockLength |-> blockLength, pdta |-> subs, headers |-> headers,
     bagsInRange |-> bagsInRange]

Header(start, end, loop, sampleRate) ==
    [start |-> start, end |-> end, startLoop |-> loop[1], endLoop |-> loop[2],
     sampleRate |-> sampleRate, originalPitch |-> 60, pitchCorrection |-> 5]

\* the pdta sub-chunks of a bank as the SoundFont format orders them
PdtaIds ==
    <<"phdr", "pbag", "pmod", "pgen", "inst", "ibag", "imod", "igen", "shdr">>

\* PdtaIds without its i-th id
PdtaIdsWithout(i) == SubSeq(PdtaIds, 1, i - 1) \o SubSeq(PdtaIds, i + 1, Len(PdtaIds))

\* the headers of the files whose framing varies: one in range, one not
FramingHeaders == <<Header(0, 2, <<0, 1>>, 48000), Header(1, 3, <<1, 2>>, 48000)>>

\* the files whose tags, LIST chunks and pdta sub-chunks vary: a wrong
\* container tag, a wrong form type, a LIST chunk missing, no smpl chunk,
\* each pdta sub-chunk missing in turn, an empty shdr chunk, a bag index out
\* of range
FramingFiles ==
    {BankFile(riff, form, <<"INFO", "sdta", "pdta">>, "smpl", 2,
              SubChunks(PdtaIds, FramingHeaders), FramingHeaders, TRUE) :
         riff \in {"RIFF", "RIFX"}, form \in {"sfbk", "WAVE"}}
    \cup
    {BankFile("RIFF", "sfbk", lists, smplId, 2,
              SubChunks(PdtaIds, FramingHeaders), FramingHeaders, bags) :
         lists \in {<<"INFO", "sdta", "pdta">>, <<"sdta", "pdta">>,
                    <<"INFO", "pdta">>, <<"INFO", "sdta">>},
         smplId \in {"smpl", "sm24"}, bags \in BOOLEAN}
    \cup
    {BankFile("RIFF", form, <<"INFO", "sdta", "pdta">>, "smpl", 2,
              SubChunks(PdtaIdsWithout(i), FramingHeaders), FramingHeaders,
              TRUE) : i \in 1..Len(PdtaIds), form \in {"sfbk", "WAVE"}}
    \cup
    {BankFile("RIFF", "sfbk", <<"INFO", "sdta", "pdta">>, "smpl", 2,
              [SubChunks(PdtaIds, <<>>) EXCEPT ![Len(PdtaIds)].size = 0],
              <<>>, TRUE)}

\* the offsets, loop points and sample rates of the headers that vary
HeaderOffsets == 0..3
LoopPoints == {<<0, 0>>, <<0, 1>>, <<1, 2>>, <<2, 1>>, <<0, 3>>}
HeaderRates == {0, 48000}
BlockLengths == {0, 2}

HeaderChoices ==
    {Header(s, e, l, r) :
        s \in HeaderOffsets, e \in HeaderOffsets, l \in LoopPoints,
        r \in HeaderRates}

\* the files whose sample headers vary: none, one, or two of which the
\* first is in range
HeaderFiles ==
    {BankFile("RIFF", "sfbk", <<"INFO", "sdta", "pdta">>, "smpl", n,
              SubChunks(PdtaIds, hs), hs, TRUE) :
         n \in BlockLengths,
         hs \in {<<>>} \cup {<<h>> : h \in HeaderChoices}
                \cup {<<Header(0, 1, <<0, 1>>, 48000), h>> : h \in HeaderChoices}
                \cup {<<h, Header(0, 2, <<1, 2>>, 48000)>> : h \in HeaderChoices}}

BankFiles == FramingFiles \cup HeaderFiles

\* a caller holds the bytes of a file
ParseInit ==
    /\ SampleManagerNew(0)
    /\ SoundEngineNew(0)
    /\ asked \in {[fn |-> "parse", file |-> f] : f \in BankFiles}
    /\ answer = <<>>
    /\ FrontNew

\* SF2Parser.parse(arrayBuffer)
ParseCall ==
    /\ asked.fn = "parse"
    /\ answer = <<>>
    /\ answer' = Parse(asked.file)
    /\ UNCHANGED <<engineVars, cacheVars, played, asked, frontVars>>

ParseNext == ParseCall

ParseSpec == ParseInit /\ [][ParseNext]_vars

\* --------------------------------------------------------- the calculators
\* A playback rate is 2^(cents / 1200) * num / den and is kept as the three
\* numbers: Math.pow(2, totalCents / 1200) is not a rational number unless
\* cents is a whole number of octaves.

\* adjustForSampleRate with the factor of v2.0, contextRate / sampleRate
AdjustForSampleRateInverse(playbackRate, sampleRate, contextRate) ==
    IF sampleRate = contextRate THEN playbackRate
    ELSE [playbackRate EXCEPT !.num = @ * contextRate, !.den = @ * sampleRate]

\* PitchCalculator.adjustForSampleRate
AdjustForSampleRate(playbackRate, sampleRate, contextRate) ==
    IF sampleRate = contextRate THEN playbackRate
    ELSE [playbackRate EXCEPT !.num = @ * sampleRate, !.den = @ * contextRate]

\* PitchCalculator.calculatePlaybackRate
CalculatePlaybackRate(midiNote, sample, zone, contextRate) ==
    LET originalPitch == sample.header.originalPitch
        pitchCorrection == sample.header.pitchCorrection
        fineTune == FineTune(zone)
        semitoneDiff == midiNote - originalPitch
        totalCents == semitoneDiff * CentsPerSemitone + pitchCorrection + fineTune
    IN  AdjustForSampleRate([cents |-> totalCents, num |-> 1, den |-> 1],
                            sample.header.sampleRate, contextRate)

\* the notes, sample headers, fine tunes and output rates asked of
\* calculatePlaybackRate
RateNotes == {21, 60, 72, 108}
RatePitches == {60, 48}
RateCorrections == {-50, 0, 5}
RateFineTunes == {{}, {0}, {-12}, {7}}
RateSampleRates == {22050, 44100, 48000}
RateContextRates == {44100, 48000}

RateCalls ==
    {[fn |-> "calculatePlaybackRate", midiNote |-> n,
      sample |-> [header |-> [originalPitch |-> op, pitchCorrection |-> pc,
                              sampleRate |-> sr]],
      zone |-> [fineTune |-> ft], contextRate |-> cr] :
        n \in RateNotes, op \in RatePitches, pc \in RateCorrections,
        ft \in RateFineTunes, sr \in RateSampleRates, cr \in RateContextRates}

\* the values of releaseVolEnv asked of calculateReleaseTime: unset, whole
\* octaves from 2^-12 s to 2^6 s, the ends of a 16-bit generator, and a value
\* far below them
ReleaseOctaves == -12..6
ReleaseCalls ==
    {[fn |-> "calculateReleaseTime", releaseVolEnv |-> tc] :
        tc \in {{}} \cup {{TimecentsPerOctave * k} : k \in ReleaseOctaves}
                    \cup {{-32768}, {32767}, {-100000}}}

\* a caller holds the arguments of a call
CalcInit ==
    /\ SampleManagerNew(0)
    /\ SoundEngineNew(0)
    /\ asked \in RateCalls \cup ReleaseCalls
    /\ answer = <<>>
    /\ FrontNew

\* PitchCalculator.calculatePlaybackRate(midiNote, sample, zone)
CalculatePlaybackRateCall ==
    /\ asked.fn = "calculatePlaybackRate"
    /\ answer = <<>>
    /\ answer' = CalculatePlaybackRate(asked.midiNote, asked.sample, asked.zone,
                                       asked.contextRate)
    /\ UNCHANGED <<engineVars, cacheVars, played, asked, frontVars>>

\* EnvelopeCalculator.calculateReleaseTime(releaseVolEnv)
CalculateReleaseTimeCall ==
    /\ asked.fn = "calculateReleaseTime"
    /\ answer = <<>>
    /\ answer' = [seconds |-> CalculateReleaseTime(asked.releaseVolEnv)]
    /\ UNCHANGED <<engineVars, cacheVars, played, asked, frontVars>>

CalcNext ==
    \/ CalculatePlaybackRateCall
    \/ CalculateReleaseTimeCall

CalcSpec == CalcInit /\ [][CalcNext]_vars

\* ------------------------------------------------- the engine as time passes
\* The ended event of a source fires once its stop time has passed, the audio
\* clock reaches every stop time that has been scheduled, and the await of
\* a noteOn completes.

\* the stop times scheduled on the left sources of the registered voices
StopDeadlines == UNION {voice[id].leftStop : id \in DOMAIN voice}

\* the stop time of the left source of the voice has passed
EndedDue(id) ==
    /\ id \in DOMAIN voice
    /\ \E t \in voice[id].leftStop : now >= t

\* leftSource.onended of a voice whose stop time has passed
OnEndedDue(id) == EndedDue(id) /\ OnEnded(id)

\* the audio clock reaches a scheduled stop time
TickToDeadline == \E t \in StopDeadlines : Tick(t)

FairNotes == {62}
FairVelocities == {100}
FairClockPoints == {ShortGap}

FairNext ==
    \/ \E n \in FairNotes, v \in FairVelocities :
          Idle /\ NoteOnCall(n, v) /\ UNCHANGED samplerVars
    \/ \E i \in 1..Len(pending) : NoteOnResume(i) /\ UNCHANGED samplerVars
    \/ \E n \in FairNotes, r \in BOOLEAN :
          Idle /\ NoteOff(n, r) /\ UNCHANGED samplerVars
    \/ \E b \in BOOLEAN, r \in BOOLEAN :
          Idle /\ SetSustainPedal(b, r) /\ UNCHANGED samplerVars
    \/ \E r \in BOOLEAN : Idle /\ AllNotesOff(r) /\ UNCHANGED samplerVars
    \/ Idle /\ Panic /\ UNCHANGED samplerVars
    \/ \E id \in DOMAIN voice : OnEnded(id) /\ UNCHANGED samplerVars
    \/ \E t \in FairClockPoints : Tick(t) /\ UNCHANGED samplerVars
    \/ TickToDeadline /\ UNCHANGED samplerVars

Fairness ==
    /\ \A id \in 1..MaxVoices :
          WF_vars(OnEndedDue(id) /\ UNCHANGED samplerVars)
    /\ WF_vars(TickToDeadline /\ UNCHANGED samplerVars)
    /\ WF_vars(\E i \in 1..Len(pending) :
                  NoteOnResume(i) /\ UNCHANGED samplerVars)

FairSpec == Init /\ [][FairNext]_vars /\ Fairness

\* ------------------------------------------------------- overlapping calls
\* noteOn is async and nothing awaits it in the note-on handler: a call of
\* the engine may start while earlier noteOn calls are suspended at the
\* await of playStereoPair.  The suspended calls complete in any order.
OverlapNotes == {60, 62}
OverlapVelocities == {100}
OverlapClockPoints == {ShortGap}

OverlapNext ==
    \/ \E n \in OverlapNotes, v \in OverlapVelocities :
          NoteOnCall(n, v) /\ UNCHANGED samplerVars
    \/ \E i \in 1..Len(pending) : NoteOnResume(i) /\ UNCHANGED samplerVars
    \/ \E n \in OverlapNotes, r \in BOOLEAN :
          NoteOff(n, r) /\ UNCHANGED samplerVars
    \/ \E b \in BOOLEAN, r \in BOOLEAN :
          SetSustainPedal(b, r) /\ UNCHANGED samplerVars
    \/ Panic /\ UNCHANGED samplerVars
    \/ \E id \in DOMAIN voice : OnEnded(id) /\ UNCHANGED samplerVars
    \/ \E t \in OverlapClockPoints : Tick(t) /\ UNCHANGED samplerVars

OverlapSpec == Init /\ [][OverlapNext]_vars

\* ------------------------------------------------------ the zone selection
\* selectZones on any bank: sf2Data.presets is a sequence of presets, each
\* with its zones.  SelectZones above is this selection on the bank of the
\* engine model.
SelectZonesAllPresets(presets, midiNote, velocity) ==
    LET RECURSIVE All(_)
        All(p) == IF p > Len(presets) THEN <<>>
                  ELSE SelectSeq(presets[p].zones,
                                 LAMBDA z : /\ midiNote >= z.keyLow
                                            /\ midiNote <= z.keyHigh
                                            /\ velocity >= z.velLow
                                            /\ velocity <= z.velHigh)
                       \o All(p + 1)
    IN  All(1)

RECURSIVE MatchedZones(_, _, _, _)
\* the loop of selectZones over preset.zones from zone i on
MatchedZones(zones, i, midiNote, velocity) ==
    IF i > Len(zones) THEN <<>>
    ELSE LET kr == [low |-> zones[i].keyLow, high |-> zones[i].keyHigh]
             vr == [low |-> zones[i].velLow, high |-> zones[i].velHigh]
             rest == MatchedZones(zones, i + 1, midiNote, velocity)
         IN  IF /\ midiNote >= kr.low
                /\ midiNote <= kr.high
                /\ velocity >= vr.low
                /\ velocity <= vr.high
             THEN <<zones[i]>> \o rest
             ELSE rest

\* SoundEngine.selectZones with this.sf2Data.presets = presets
SelectZonesIn(presets, midiNote, velocity) ==
    IF Len(presets) = 0 THEN <<>>
    ELSE MatchedZones(presets[1].zones, 1, midiNote, velocity)

\* zones with shared and with adjacent bounds; the sample id tells them apart
SelectableZones ==
    << Zone(60, 62, 0, 63, {PanLeft}, {0}, {}),
       Zone(60, 62, 64, 127, {PanLeft}, {1}, {}),
       Zone(62, 64, 0, 127, {PanRight}, {2}, {}) >>

\* the presets of the banks
SelectablePresets ==
    { [zones |-> <<>>],
      [zones |-> SelectableZones],
      [zones |-> <<SelectableZones[3], SelectableZones[1]>>],
      [zones |-> <<SelectableZones[2]>>] }

\* sf2Data.presets: no preset, one or two
SelectableBanks ==
    {<<>>} \cup {<<p>> : p \in SelectablePresets}
           \cup {<<p, q>> : p \in SelectablePresets, q \in SelectablePresets}

SelectNotes == {59, 60, 62, 64, 65}
SelectVelocities == {0, 63, 64, 127}

SelectCalls ==
    [op : {"selectZones"}, presets : SelectableBanks, midiNote : SelectNotes,
     velocity : SelectVelocities]

SelectInit ==
    /\ SampleManagerNew(0)
    /\ SoundEngineNew(0)
    /\ asked \in SelectCalls
    /\ answer = <<>>
    /\ FrontNew

\* noteOn at const zones = this.selectZones(midiNote, velocity)
SelectZonesCall ==
    /\ answer = <<>>
    /\ answer' = [zones |-> SelectZonesIn(asked.presets, asked.midiNote,
                                          asked.velocity)]
    /\ UNCHANGED <<engineVars, cacheVars, played, asked, frontVars>>

SelectNext == SelectZonesCall

SelectSpec == SelectInit /\ [][SelectNext]_vars

\* ----------------------------------------------------- generators and zones
\* A generator record is four bytes: the type and the amount, each a
\* little-endian 16-bit number.
GetUint16(b0, b1) == b0 + 256 * b1

\* the types buildZone has a case for: key range, velocity range, pan,
\* fine tune, release time, sample id, instrument
KeyRangeType == 43
VelRangeType == 44
PanType == 17
FineTuneType == 52
ReleaseVolEnvType == 38
SampleIDType == 53
InstrumentType == 41

\* parseGenerators keeping every amount as the unsigned number read
ParseGeneratorsUnsigned(records) ==
    [i \in 1..Len(records) |->
        LET type == GetUint16(records[i][1], records[i][2])
            rawAmount == GetUint16(records[i][3], records[i][4])
        IN  IF type = KeyRangeType \/ type = VelRangeType
            THEN [type |-> type,
                  amount |-> [low |-> rawAmount % 256,
                              high |-> (rawAmount \div 256) % 256]]
            ELSE [type |-> type, amount |-> rawAmount]]

\* SF2Parser.parseGenerators on the records of a pgen or igen chunk
ParseGenerators(records) ==
    [i \in 1..Len(records) |->
        LET type == GetUint16(records[i][1], records[i][2])
            rawAmount == GetUint16(records[i][3], records[i][4])
        IN  IF type = KeyRangeType \/ type = VelRangeType
            THEN [type |-> type,
                  amount |-> [low |-> rawAmount % 256,
                              high |-> (rawAmount \div 256) % 256]]
            ELSE [type |-> type,
                  amount |-> IF rawAmount > 32767 THEN rawAmount - 65536
                             ELSE rawAmount]]

\* the zone buildZone starts from
DefaultZone ==
    [keyLow |-> 0, keyHigh |-> 127, velLow |-> 0, velHigh |-> 127,
     pan |-> {}, sampleId |-> {}, releaseVolEnv |-> {}, fineTune |-> {},
     instrumentId |-> {}]

\* one turn of the loop of buildZone: the switch on gen.type, which has no
\* default case
ApplyGenerator(zone, gen) ==
    IF gen.type = KeyRangeType
    THEN [zone EXCEPT !.keyLow = gen.amount.low, !.keyHigh = gen.amount.high]
    ELSE IF gen.type = VelRangeType
    THEN [zone EXCEPT !.velLow = gen.amount.low, !.velHigh = gen.amount.high]
    ELSE IF gen.type = PanType THEN [zone EXCEPT !.pan = {gen.amount}]
    ELSE IF gen.type = FineTuneType
    THEN [zone EXCEPT !.fineTune = {gen.amount}]
    ELSE IF gen.type = ReleaseVolEnvType
    THEN [zone EXCEPT !.releaseVolEnv = {gen.amount}]
    ELSE IF gen.type = SampleIDType
    THEN [zone EXCEPT !.sampleId = {gen.amount}]
    ELSE IF gen.type = InstrumentType
    THEN [zone EXCEPT !.instrumentId = {gen.amount}]
    ELSE zone

RECURSIVE BuildZoneFrom(_, _, _)
\* the loop of buildZone from generator i on
BuildZoneFrom(zone, generators, i) ==
    IF i > Len(generators) THEN zone
    ELSE BuildZoneFrom(ApplyGenerator(zone, generators[i]), generators, i + 1)

\* SF2Parser.buildZone; zone.generators repeats the fields and is left out
BuildZone(generators) == BuildZoneFrom(DefaultZone, generators, 1)

\* the type fields of the records: the seven types with a case, three
\* without, one of them with the low byte of the key range type
GeneratorTypeBytes ==
    { <<43, 0>>, <<44, 0>>, <<17, 0>>, <<52, 0>>, <<38, 0>>, <<53, 0>>,
      <<41, 0>>, <<0, 0>>, <<54, 0>>, <<43, 1>> }

\* the amount fields of the records, low byte first
GeneratorAmountBytes ==
    {<<a0, a1>> : a0 \in {0, 60, 255}, a1 \in {0, 127, 128, 255}}

GeneratorRecords ==
    {t \o a : t \in GeneratorTypeBytes, a \in GeneratorAmountBytes}

\* the generators of one bag: one record or two
GeneratorLists ==
    {<<r>> : r \in GeneratorRecords}
       \cup {<<r, q>> : r \in GeneratorRecords, q \in GeneratorRecords}

GeneratorCalls == [op : {"buildZone"}, records : GeneratorLists]

GeneratorInit ==
    /\ SampleManagerNew(0)
    /\ SoundEngineNew(0)
    /\ asked \in GeneratorCalls
    /\ answer = <<>>
    /\ FrontNew

\* parseGenerators on the records and buildZone on its result
BuildZoneCall ==
    /\ answer = <<>>
    /\ LET generators == ParseGenerators(asked.records)
       IN  answer' = [generators |-> generators,
                      zone |-> BuildZone(generators)]
    /\ UNCHANGED <<engineVars, cacheVars, played, asked, frontVars>>

GeneratorNext == BuildZoneCall

GeneratorSpec == GeneratorInit /\ [][GeneratorNext]_vars

\* ------------------------------------------------------------- the presets
\* parsePresets on the records of the three chunks: phdr is the bag index of
\* each preset header (the last header is the terminator), pbag the
\* generator index of each bag, pgen the generator records.  The indices
\* are those of the code, from 0.

\* what one bag of a preset adds to its zones
ExpandedZone(zone, instruments) ==
    IF zone.instrumentId # {}
    THEN LET id == CHOOSE x \in zone.instrumentId : TRUE
         IN  IF id >= 0 /\ id < Len(instruments)
             THEN instruments[id + 1].zones
             ELSE <<>>
    ELSE <<zone>>

RECURSIVE PresetZonesFrom(_, _, _, _, _)
\* the loop over the bags b..nextBagIndex-1 of one preset
PresetZonesFrom(b, nextBagIndex, bags, generators, instruments) ==
    IF b >= nextBagIndex THEN <<>>
    ELSE LET bag == bags[b + 1]
             nextGenIndex == IF b < Len(bags) - 1 THEN bags[b + 2]
                             ELSE Len(generators)
             zone == BuildZone(Slice(generators, bag, nextGenIndex))
         IN  ExpandedZone(zone, instruments)
                \o PresetZonesFrom(b + 1, nextBagIndex, bags, generators,
                                   instruments)

\* SF2Parser.parsePresets; of a preset only its zones are kept
ParsePresets(phdr, pbag, pgen, instruments) ==
    LET presetCount == Len(phdr)
        bags == pbag
        generators == ParseGenerators(pgen)
    IN  [k \in 1..(presetCount - 1) |->
            LET i == k - 1
                bagIndex == phdr[i + 1]
                nextBagIndex == IF i < presetCount - 2 THEN phdr[i + 2]
                                ELSE Len(bags)
            IN  [zones |-> PresetZonesFrom(bagIndex, nextBagIndex, bags,
                                           generators, instruments)]]

\* the generator records of a preset bag: instrument 0; a key range and
\* instrument 1; instrument 2; a key range and sample 1; pan = -500 alone
PresetBagChoices ==
    { << <<41, 0, 0, 0>> >>,
      << <<43, 0, 0, 127>>, <<41, 0, 1, 0>> >>,
      << <<41, 0, 2, 0>> >>,
      << <<43, 0, 60, 60>>, <<53, 0, 1, 0>> >>,
      << <<17, 0, 12, 254>> >> }

\* the bags of one preset: one or two
PresetBagLists ==
    {<<x>> : x \in PresetBagChoices}
       \cup {<<x, y>> : x \in PresetBagChoices, y \in PresetBagChoices}

\* the instruments handed to parsePresets: none, one or two
InstrumentLists ==
    LET left == [DefaultZone EXCEPT !.pan = {PanLeft}, !.sampleId = {0}]
        right == [DefaultZone EXCEPT !.pan = {PanRight}, !.sampleId = {1}]
        high == [DefaultZone EXCEPT !.keyLow = 72, !.sampleId = {2}]
    IN  { <<>>,
          << [zones |-> <<left, right>>] >>,
          << [zones |-> <<left, right>>], [zones |-> <<high>>] >> }

RECURSIVE Joined(_)
\* the lists of lists, one after the other
Joined(lists) ==
    IF lists = <<>> THEN <<>> ELSE Head(lists) \o Joined(Tail(lists))

RECURSIVE StartIndices(_, _)
\* the index at which each list of lists starts, from first on
StartIndices(lists, first) ==
    IF lists = <<>> THEN <<>>
    ELSE <<first>> \o StartIndices(Tail(lists), first + Len(Head(lists)))

\* the chunks of a bank with the presets given by their bags: each table
\* ends with its terminal record, whose index is the number of the records
\* before it
PresetChunks(presetBags, instruments) ==
    LET bagLists == Joined(presetBags)
    IN  [op |-> "parsePresets",
         phdr |-> StartIndices(presetBags, 0) \o <<Len(bagLists)>>,
         pbag |-> StartIndices(bagLists, 0) \o <<Len(Joined(bagLists))>>,
         pgen |-> Joined(bagLists) \o << <<0, 0, 0, 0>> >>,
         instruments |-> instruments]

PresetCalls ==
    {PresetChunks(pb, ins) :
        pb \in {<<p>> : p \in PresetBagLists}
                  \cup {<<p, q>> : p \in PresetBagLists, q \in PresetBagLists},
        ins \in InstrumentLists}

PresetInit ==
    /\ SampleManagerNew(0)
    /\ SoundEngineNew(0)
    /\ asked \in PresetCalls
    /\ answer = <<>>
    /\ FrontNew

ParsePresetsCall ==
    /\ answer = <<>>
    /\ answer' = [presets |-> ParsePresets(asked.phdr, asked.pbag, asked.pgen,
                                           asked.instruments)]
    /\ UNCHANGED <<engineVars, cacheVars, played, asked, frontVars>>

PresetNext == ParsePresetsCall

PresetSpec == PresetInit /\ [][PresetNext]_vars

\* ------------------------------------------------------------ the MIDI input
\* A MIDI message is its status byte and two data bytes.  MIDIManager turns
\* the messages into events and calls the listeners of each event at once;
\* the listeners here are those of MIDIStore.  The display mode is the one
\* the settings had when the store was created.
NoteOnStatus == 144
NoteOffStatus == 128
ControlChangeStatus == 176
SustainPedalController == 64
AllSoundOffController == 120
AllNotesOffController == 123

\* a pedal value from which the pedal counts as down (event.value >= 64 in
\* AudioEngine; MIDIStore compares with SUSTAIN_PEDAL.THRESHOLD)
SustainThreshold == 64

NoteOnEvent(note, velocity) ==
    [type |-> "noteon", note |-> note, velocity |-> velocity]

NoteOffEvent(note) == [type |-> "noteoff", note |-> note, velocity |-> 0]

ControlChangeEvent(controller, value) ==
    [type |-> "cc", note |-> controller, velocity |-> value]

\* handleNoteOff: the manager after it and the events it emits
HandleNoteOff(mgr, note) ==
    [manager |-> [mgr EXCEPT !.activeNotes = @ \ {note}],
     emitted |-> <<NoteOffEvent(note)>>]

\* handleNoteOn emitting every note-on with a velocity
HandleNoteOnNoFilter(mgr, note, velocity) ==
    IF velocity = 0 THEN HandleNoteOff(mgr, note)
    ELSE [manager |-> [mgr EXCEPT !.activeNotes = @ \cup {note}],
          emitted |-> <<NoteOnEvent(note, velocity)>>]

\* MIDIManager.handleNoteOn
HandleNoteOn(mgr, note, velocity) ==
    IF velocity = 0 THEN HandleNoteOff(mgr, note)
    ELSE IF note \in mgr.activeNotes
    THEN [manager |-> mgr, emitted |-> <<>>]
    ELSE [manager |-> [mgr EXCEPT !.activeNotes = @ \cup {note}],
          emitted |-> <<NoteOnEvent(note, velocity)>>]

\* MIDIManager.handleMIDIMessage with every device selected
HandleMIDIMessage(mgr, msg) ==
    LET statusByte == msg.status - (msg.status % 16)
    IN  IF mgr.isPaused THEN [manager |-> mgr, emitted |-> <<>>]
        ELSE IF statusByte = NoteOnStatus
        THEN HandleNoteOn(mgr, msg.data1, msg.data2)
        ELSE IF statusByte = NoteOffStatus
        THEN HandleNoteOff(mgr, msg.data1)
        ELSE IF statusByte = ControlChangeStatus
        THEN [manager |-> mgr,
              emitted |-> <<ControlChangeEvent(msg.data1, msg.data2)>>]
        ELSE [manager |-> mgr, emitted |-> <<>>]

\* the noteon listener of MIDIStore
StoreNoteOn(st, midiNote) ==
    IF midiNote \in st.activeKeys THEN st
    ELSE [st EXCEPT !.activeKeys = @ \cup {midiNote},
                    !.sustainedKeys = @ \ {midiNote}]

\* the noteoff listener of MIDIStore
StoreNoteOff(st, mode, midiNote) ==
    IF mode = "physical" THEN [st EXCEPT !.activeKeys = @ \ {midiNote}]
    ELSE IF ~st.isSustainPedalDown
    THEN [st EXCEPT !.activeKeys = @ \ {midiNote}]
    ELSE [st EXCEPT !.sustainedKeys = @ \cup {midiNote}]

\* the cc listener of MIDIStore
StoreControlChange(st, mode, controller, value) ==
    IF controller # SustainPedalController THEN st
    ELSE LET isDown == value >= SustainThreshold
             wasDown == st.isSustainPedalDown
             pedalled == [st EXCEPT !.isSustainPedalDown = isDown]
         IN  IF mode = "sustained" /\ wasDown /\ ~isDown
             THEN [pedalled EXCEPT !.activeKeys = @ \ st.sustainedKeys,
                                   !.sustainedKeys = {}]
             ELSE pedalled

\* the listeners of MIDIStore on one event
StoreListen(st, mode, event) ==
    IF event.type = "noteon" THEN StoreNoteOn(st, event.note)
    ELSE IF event.type = "noteoff" THEN StoreNoteOff(st, mode, event.note)
    ELSE StoreControlChange(st, mode, event.note, event.velocity)

RECURSIVE StoreListenAll(_, _, _)
StoreListenAll(st, mode, events) ==
    IF events = <<>> THEN st
    ELSE StoreListenAll(StoreListen(st, mode, Head(events)), mode,
                        Tail(events))

RECURSIVE OpenAfter(_, _)
\* the notes whose last emitted event is a noteon, after more events
OpenAfter(open, events) ==
    IF events = <<>> THEN open
    ELSE OpenAfter(IF Head(events).type = "noteon"
                   THEN open \cup {Head(events).note}
                   ELSE IF Head(events).type = "noteoff"
                   THEN open \ {Head(events).note}
                   ELSE open,
                   Tail(events))

MidiNotes == {60, 62}
MidiVelocities == {0, 100}
PedalValues == {0, 127}

MidiMessages ==
    [status : {NoteOnStatus, NoteOnStatus + 1}, data1 : MidiNotes,
     data2 : MidiVelocities]
    \cup [status : {NoteOffStatus}, data1 : MidiNotes, data2 : {0}]
    \cup [status : {ControlChangeStatus},
          data1 : {SustainPedalController, AllNotesOffController},
          data2 : PedalValues]

\* input.onmidimessage: the manager handles the message and the listeners
\* of the store run on what it emits
OnMIDIMessage(msg) ==
    LET r == HandleMIDIMessage(midiManager, msg)
    IN  /\ midiManager' = r.manager
        /\ midiStore' = StoreListenAll(midiStore, keyboardDisplayMode,
                                       r.emitted)
        /\ frontLast' = [frontLast EXCEPT
                            !.op = "midi",
                            !.message = msg,
                            !.handled = ~midiManager.isPaused,
                            !.emitted = r.emitted,
                            !.wasOpen = frontLast.open,
                            !.open = OpenAfter(frontLast.open, r.emitted)]
        /\ UNCHANGED <<transpose, keyboardDisplayMode, sustainPedalDown>>

\* MIDIManager.pause and MIDIManager.resume
SetPaused(paused) ==
    /\ midiManager' = [midiManager EXCEPT !.isPaused = paused]
    /\ frontLast' = [frontLast EXCEPT
                        !.op = IF paused THEN "pause" ELSE "resume",
                        !.message = <<>>,
                        !.handled = FALSE,
                        !.emitted = <<>>,
                        !.wasOpen = frontLast.open]
    /\ UNCHANGED <<transpose, midiStore, keyboardDisplayMode,
                   sustainPedalDown>>

DisplayModes == {"physical", "sustained"}

MidiInit ==
    /\ SampleManagerNew(0)
    /\ SoundEngineNew(0)
    /\ NothingCalled
    /\ \E mode \in DisplayModes : FrontNewIn(mode)

MidiNext ==
    \/ \E msg \in MidiMessages :
          OnMIDIMessage(msg)
             /\ UNCHANGED <<engineVars, cacheVars, played, callVars>>
    \/ \E paused \in BOOLEAN :
          SetPaused(paused)
             /\ UNCHANGED <<engineVars, cacheVars, played, callVars>>

MidiSpec == MidiInit /\ [][MidiNext]_vars

\* ------------------------------------------------------- the transposition
\* The noteon and noteoff listeners of AudioEngine and setTranspose.  Of the
\* engine only the call the listener makes is kept, in frontLast.call;
\* frontLast.started pairs a key with the engine note its last noteon
\* started.
MaxTranspose == 12

\* Math.max(-12, Math.min(12, transpose))
ClampTranspose(t) ==
    IF t > MaxTranspose THEN MaxTranspose
    ELSE IF t < -MaxTranspose THEN -MaxTranspose
    ELSE t

\* AudioEngine.setTranspose
SetTranspose(t) ==
    /\ transpose' = ClampTranspose(t)
    /\ frontLast' = [frontLast EXCEPT !.op = "setTranspose",
                                      !.message = <<>>,
                                      !.call = <<>>,
                                      !.matched = {}]
    /\ UNCHANGED <<midiManager, midiStore, keyboardDisplayMode,
                   sustainPedalDown>>

\* the noteon listener of AudioEngine; with the audio context suspended
\* the engine is not called
AudioNoteOn(note, velocity, suspended) ==
    /\ LET transposedNote == note + transpose
       IN  frontLast' = [frontLast EXCEPT
                            !.op = "noteon",
                            !.message = NoteOnEvent(note, velocity),
                            !.call = IF suspended THEN <<>>
                                     ELSE [op |-> "noteOn",
                                           note |-> transposedNote],
                            !.matched = {},
                            !.started =
                               {q \in @ : q[1] # note}
                                  \cup (IF suspended THEN {}
                                        ELSE {<<note, transposedNote>>})]
    /\ UNCHANGED <<transpose, midiManager, midiStore, keyboardDisplayMode,
                   sustainPedalDown>>

\* the noteoff listener of AudioEngine
AudioNoteOff(note) ==
    /\ LET transposedNote == note + transpose
       IN  frontLast' = [frontLast EXCEPT
                            !.op = "noteoff",
                            !.message = NoteOffEvent(note),
                            !.call = [op |-> "noteOff",
                                      note |-> transposedNote],
                            !.matched = {p[2] : p \in {q \in frontLast.started :
                                                          q[1] = note}},
                            !.started = {q \in @ : q[1] # note}]
    /\ UNCHANGED <<transpose, midiManager, midiStore, keyboardDisplayMode,
                   sustainPedalDown>>

TransposeKeys == {60, 62}
TransposeVelocities == {100}
Transposes == {-13, 0, 1, 12}

TransposeNext ==
    \/ \E n \in TransposeKeys, v \in TransposeVelocities, s \in BOOLEAN :
          AudioNoteOn(n, v, s)
             /\ UNCHANGED <<engineVars, cacheVars, played, callVars>>
    \/ \E n \in TransposeKeys :
          AudioNoteOff(n)
             /\ UNCHANGED <<engineVars, cacheVars, played, callVars>>
    \/ \E t \in Transposes :
          SetTranspose(t)
             /\ UNCHANGED <<engineVars, cacheVars, played, callVars>>

TransposeSpec == Init /\ [][TransposeNext]_vars

\* ---------------------------------------------------------- the audio store
\* The pedal operations of audioStore on an initialized engine, and the cc
\* listener of AudioEngine with the onSustainPedal callback that
\* initializeAudio gives it.
StoreDid(op) ==
    [frontLast EXCEPT !.op = op, !.message = <<>>, !.call = <<>>,
                      !.matched = {}]

\* SoundEngine.getStats().sustainPedalDown
EnginePedalDown == sustainPedal

\* audioStore.setSustainPedal
StoreSetSustainPedal(isDown, read) ==
    /\ SetSustainPedal(isDown, read)
    /\ sustainPedalDown' = isDown
    /\ frontLast' = StoreDid("storeSetSustainPedal")
    /\ UNCHANGED <<transpose, midiManager, midiStore, keyboardDisplayMode>>

\* audioStore.allNotesOff
StoreAllNotesOff(read) ==
    /\ AllNotesOff(read)
    /\ frontLast' = StoreDid("storeAllNotesOff")
    /\ UNCHANGED <<transpose, midiManager, midiStore, keyboardDisplayMode,
                   sustainPedalDown>>

\* audioStore.panic
StorePanic ==
    /\ Panic
    /\ sustainPedalDown' = FALSE
    /\ frontLast' = StoreDid("storePanic")
    /\ UNCHANGED <<transpose, midiManager, midiStore, keyboardDisplayMode>>

\* the cc listener of AudioEngine
AudioControlChange(controller, value, read) ==
    /\ controller \in {SustainPedalController, AllNotesOffController,
                       AllSoundOffController}
    /\ IF controller = SustainPedalController
       THEN LET isDown == value >= SustainThreshold
            IN  /\ SetSustainPedal(isDown, read)
                /\ sustainPedalDown' = isDown
       ELSE IF controller = AllNotesOffController
       THEN AllNotesOff(read) /\ UNCHANGED sustainPedalDown
       ELSE Panic /\ UNCHANGED sustainPedalDown
    /\ frontLast' = [StoreDid("cc") EXCEPT
                        !.message = ControlChangeEvent(controller, value)]
    /\ UNCHANGED <<transpose, midiManager, midiStore, keyboardDisplayMode>>

StoreNotes == {62}
StoreVelocities == {100}
StoreClockPoints == {ShortGap}

StoreNext ==
    \/ \E n \in StoreNotes, v \in StoreVelocities :
          Idle /\ NoteOnCall(n, v) /\ UNCHANGED samplerVars
    \/ \E i \in 1..Len(pending) : NoteOnResume(i) /\ UNCHANGED samplerVars
    \/ \E n \in StoreNotes, r \in BOOLEAN :
          Idle /\ NoteOff(n, r) /\ UNCHANGED samplerVars
    \/ \E id \in DOMAIN voice : Idle /\ OnEnded(id) /\ UNCHANGED samplerVars
    \/ \E t \in StoreClockPoints : Idle /\ Tick(t) /\ UNCHANGED samplerVars
    \/ \E b \in BOOLEAN, r \in BOOLEAN :
          Idle /\ StoreSetSustainPedal(b, r)
               /\ UNCHANGED <<cacheVars, played, callVars>>
    \/ \E r \in BOOLEAN :
          Idle /\ StoreAllNotesOff(r)
               /\ UNCHANGED <<cacheVars, played, callVars>>
    \/ Idle /\ StorePanic /\ UNCHANGED <<cacheVars, played, callVars>>
    \/ \E c \in {SustainPedalController, AllNotesOffController,
                 AllSoundOffController},
          v \in PedalValues, r \in BOOLEAN :
          Idle /\ AudioControlChange(c, v, r)
               /\ UNCHANGED <<cacheVars, played, callVars>>

StoreSpec == Init /\ [][StoreNext]_vars

\* ------------------------------------------------------- the chord detector
\* detectChord on a set with at most two pitch classes.  A string is the
\* sequence of its characters, "" the empty sequence; the flat sign is the
\* character "flat".  The maps of chordMaps.ts are the twelve note names,
\* with sharps or with flats, and chord2num their inverse.
SharpNames ==
    << <<"C">>, <<"C", "#">>, <<"D">>, <<"D", "#">>, <<"E">>, <<"F">>,
       <<"F", "#">>, <<"G">>, <<"G", "#">>, <<"A">>, <<"A", "#">>, <<"B">> >>

FlatNames ==
    << <<"C">>, <<"D", "flat">>, <<"D">>, <<"E", "flat">>, <<"E">>, <<"F">>,
       <<"G", "flat">>, <<"G">>, <<"A", "flat">>, <<"A">>, <<"B", "flat">>,
       <<"B">> >>

\* getNum2Chord(useFlat)[pc]
Num2Chord(useFlat, pc) ==
    IF useFlat THEN FlatNames[pc + 1] ELSE SharpNames[pc + 1]

\* chord2num[name.toLowerCase()]
Chord2Num(name) ==
    CHOOSE pc \in 0..11 : SharpNames[pc + 1] = name \/ FlatNames[pc + 1] = name

\* Array.from(midiNumbers).sort((a, b) => a - b)
RECURSIVE SortedMidi(_)
SortedMidi(midiNumbers) ==
    IF midiNumbers = {} THEN <<>>
    ELSE LET lowest == CHOOSE m \in midiNumbers : \A n \in midiNumbers : m <= n
         IN  <<lowest>> \o SortedMidi(midiNumbers \ {lowest})

\* normalizeToPitchClasses: the pitch classes by their distance above the
\* lowest note, as note names
NormalizeToPitchClasses(midiNumbers, useFlat) ==
    LET sortedMidi == SortedMidi(midiNumbers)
        lowestPc == sortedMidi[1] % 12
        unique == {m % 12 : m \in midiNumbers}
        RECURSIVE ByDistance(_)
        ByDistance(d) ==
            IF d > 11 THEN <<>>
            ELSE (IF (lowestPc + d) % 12 \in unique
                  THEN <<Num2Chord(useFlat, (lowestPc + d) % 12)>>
                  ELSE <<>>) \o ByDistance(d + 1)
    IN  ByDistance(0)

\* toIntervals
ToIntervals(noteNames) ==
    LET rootPitch == Chord2Num(noteNames[1])
    IN  [i \in 1..Len(noteNames) |->
            (Chord2Num(noteNames[i]) - rootPitch + 12) % 12]

NaturalNames == {"A", "B", "C", "D", "E", "F", "G"}

\* step 1 of convertToMNotoSans: the accidental of the root
ConvertRoot(name) ==
    IF Len(name) >= 2 /\ name[1] \in NaturalNames /\ name[2] = "#"
    THEN [name EXCEPT ![2] = "["]
    ELSE IF Len(name) >= 2 /\ name[1] \in NaturalNames /\ name[2] = "flat"
    THEN [name EXCEPT ![2] = "]"]
    ELSE name

\* the characters steps 2 and 6 of convertToMNotoSans write for one
\* character outside parentheses; 11 and 13 do not occur in the names here
ConvertCharacter(c) ==
    IF c = "(" THEN "{"
    ELSE IF c = ")" THEN "}"
    ELSE IF c = "9" THEN ")"
    ELSE IF c = "6" THEN "&"
    ELSE IF c = "5" THEN "%"
    ELSE IF c = "4" THEN "$"
    ELSE IF c = "2" THEN "\""
    ELSE c

\* convertToMNotoSans on a name with no bass note, no parentheses and no
\* omit: steps 3 to 5 change text inside parentheses and the word omit only
ConvertToMNotoSans(chordName) ==
    LET result == ConvertRoot(chordName)
    IN  [i \in 1..Len(result) |-> ConvertCharacter(result[i])]

\* detectChordWithCandidates for at most two pitch classes
DetectChordWithCandidates(midiNumbers, useFlat) ==
    IF midiNumbers = {} THEN <<>>
    ELSE LET pitchClasses == NormalizeToPitchClasses(midiNumbers, useFlat)
         IN  IF Len(pitchClasses) = 1 THEN <<>>
             ELSE IF ToIntervals(pitchClasses) = <<0, 7>>
             THEN <<ConvertToMNotoSans(pitchClasses[1] \o <<"5">>)>>
             ELSE <<>>

\* detectChord
DetectChord(midiNumbers, useFlat) ==
    LET candidates == DetectChordWithCandidates(midiNumbers, useFlat)
    IN  IF Len(candidates) > 0 THEN candidates[1] ELSE <<>>

DetectNotes == {48, 55, 60, 61, 66, 67, 72}

\* the pitch classes of a set of MIDI numbers
PitchClassesOf(midiNumbers) == {m % 12 : m \in midiNumbers}

DetectCalls ==
    [op : {"detectChord"},
     midiNumbers : {ns \in SUBSET DetectNotes :
                       Cardinality(PitchClassesOf(ns)) <= 2},
     useFlat : BOOLEAN]

DetectInit ==
    /\ SampleManagerNew(0)
    /\ SoundEngineNew(0)
    /\ asked \in DetectCalls
    /\ answer = <<>>
    /\ FrontNew

DetectChordCall ==
    /\ answer = <<>>
    /\ answer' = [name |-> DetectChord(asked.midiNumbers, asked.useFlat)]
    /\ UNCHANGED <<engineVars, cacheVars, played, asked, frontVars>>

DetectNext == DetectChordCall

DetectSpec == DetectInit /\ [][DetectNext]_vars

\* ----------------------------------------------------------------- claims
\* the steps that are the synchronous part of a noteOn that passed its checks
NoteOnOps == {"noteOn", "noteOnFailed"}

\* the steps that ask for a release
ReleaseOps == {"noteOff", "pedalUp", "allNotesOff"}

\* C1: with every noteOn completed before the next call starts, the total
\* number of voices in the registry never exceeds maxPolyphony.
C1_PolyphonyBound == TotalVoices(voices) <= maxPolyphony

\* a voice has just been registered at the limit after more noteOn calls
\* than the limit allows voices
C1_Witness ==
    /\ last.op = "noteOnDone"
    /\ TotalVoices(voices) = maxPolyphony
    /\ nextId - 1 > maxPolyphony

\* C2: when a noteOn steals among voices none of which is releasing, the
\* stolen voice is one with the lowest velocity, and among the voices of
\* that velocity the one that started first.
C2_StealsLowestVelocityOldest ==
    [][(last'.op \in NoteOnOps /\ last'.stolen # {}
            /\ \A id \in DOMAIN voice : ~voice[id].isReleasing)
        => \A s \in last'.stolen, o \in DOMAIN voice :
              /\ voice[s].velocity <= voice[o].velocity
              /\ voice[o].velocity = voice[s].velocity
                    => voice[s].startTime <= voice[o].startTime]_vars

\* C3: whenever a steal happens while a voice of the registry is releasing,
\* the stolen voice is a releasing voice.
C3_StealsReleasingFirst ==
    [][(last'.op \in NoteOnOps /\ last'.stolen # {}
            /\ \E id \in DOMAIN voice : voice[id].isReleasing)
        => \A s \in last'.stolen : voice[s].isReleasing]_vars

\* C4: a noteOn steals exactly one voice when the registry holds
\* maxPolyphony or more voices at the polyphony check and none otherwise;
\* the stolen voice has both sources stopped at once and is out of the
\* registry in the same step, and no other voice leaves the registry.
C4_StealsExactlyOne ==
    [][last'.op \in NoteOnOps
        => /\ Cardinality(last'.stolen)
                 = (IF TotalVoices(voices) >= maxPolyphony THEN 1 ELSE 0)
           /\ last'.stolen \subseteq RegisteredIds(voices)
           /\ RegisteredIds(voices') = RegisteredIds(voices) \ last'.stolen
           /\ TotalVoices(voices') = TotalVoices(voices) - Cardinality(last'.stolen)
           /\ last'.stopped = last'.stolen]_vars

\* a noteOn has stolen a voice of a registry that held two
C4_Witness ==
    /\ last.op \in NoteOnOps
    /\ Cardinality(last.stolen) = 1
    /\ last.stopped = last.stolen
    /\ TotalVoices(voices) = 1
    /\ maxPolyphony = 2


\* the retrigger fade as noteOn schedules it at currentTime
FadedAt(v, currentTime) ==
    /\ v.gain = [kind |-> "fade", start |-> currentTime,
                 end |-> currentTime + FadeOutTime]
    /\ v.leftStop = {currentTime + FadeOutTime}
    /\ v.rightStop = {currentTime + FadeOutTime}

\* C5: noteOn(n) for a note n with live voices schedules every existing
\* voice of n to fade linearly to zero over 20 ms and to stop at the end of
\* that fade, and registers exactly one new voice for n; no voice is stopped
\* before the end of its fade.
C5_RetriggerFadesNeverCuts ==
    [][/\ last'.op \in NoteOnOps
            => /\ \A id \in SeqToSet(VoicesOf(voices, last'.note)) :
                     /\ id \in DOMAIN voice'
                     /\ FadedAt(voice'[id], now)
               /\ \A s \in last'.stolen :
                     ~(voice[s].gain.kind = "fade" /\ now < voice[s].gain.end)
       /\ last'.op = "noteOnDone"
            => /\ Len(VoicesOf(voices', last'.note))
                     = Len(VoicesOf(voices, last'.note)) + 1
               /\ DOMAIN voice' = DOMAIN voice \cup {nextId}
               /\ \A id \in DOMAIN voice : voice'[id] = voice[id]]_vars

C8_ReleaseOnce ==
    [][\A id \in DOMAIN voice :
          voice[id].isReleasing
            => /\ id \in DOMAIN voice' => voice'[id].isReleasing
               /\ last'.op \in ReleaseOps
                    => id \in DOMAIN voice' /\ voice'[id] = voice[id]]_vars

\* allNotesOff has run over a voice released at an earlier clock reading
C8_Witness ==
    /\ last.op = "allNotesOff"
    /\ \E id \in DOMAIN voice :
          /\ voice[id].isReleasing
          /\ voice[id].gain.kind \in {"linear", "exponential"}
          /\ voice[id].gain.start < now

C10_Panic ==
    [][last'.op = "panic"
        => /\ last'.stopped = RegisteredIds(voices)
           /\ last'.removed = RegisteredIds(voices)
           /\ voices' = <<>>
           /\ sustainedNotes' = {}
           /\ GetStats'.activeVoices = 0
           /\ GetStats'.sustainedNotes = 0]_vars

\* panic has stopped two voices, one of a note held by the pedal
C10_Witness ==
    /\ last.op = "panic"
    /\ Cardinality(last.stopped) = 2
    /\ last.held # {}
    /\ GetStats.activeVoices = 0
    /\ GetStats.sustainedNotes = 0

\* C11: every note of SustainSet has at least one voice in the registry
\* (so the removal of the last voice of a note, by natural end, steal or
\* panic, takes the note out of SustainSet), and no registry entry maps a
\* note to an empty voice list.
C11_SustainHasVoices ==
    /\ sustainedNotes \subseteq RegisteredNotes(voices)
    /\ \A i \in 1..Len(voices) : voices[i].vs # <<>>
    /\ \A n \in sustainedNotes : VoicesOf(voices, n) # <<>>

\* a noteOn has stolen the only voice of a note the pedal held, and the
\* other held note is still in SustainSet
C11_Witness ==
    /\ last.op = "noteOn"
    /\ last.stolen # {}
    /\ sustainedNotes # {}
    /\ \E n \in last.held :
          /\ n \notin sustainedNotes
          /\ n \notin RegisteredNotes(voices)

\* C12: a noteOn whose voice cannot be realized (missing stereo pair,
\* missing sample) registers no voice and leaves every other voice as it
\* was: it removes no voice from the registry and fades or releases none.
C12_FailedNoteOnTouchesNothing ==
    [][last'.op = "noteOnFailed"
        => /\ voices' = voices
           /\ voice' = voice
           /\ sustainedNotes' = sustainedNotes
           /\ pending' = pending]_vars

\* the steps in which a release raised out of the engine
RaisedOps == {"noteOffRaised", "pedalUpRaised", "allNotesOffRaised"}

\* C13: where a second stop request on a source raises "already stopped",
\* no operation of the engine lets the error reach its caller, and a release
\* still completes for the remaining voices: after noteOff with the pedal
\* up every voice of the note is releasing, after a pedal-up every voice of
\* the held notes, after allNotesOff every voice, and SustainSet is empty
\* after the last two.
C13_AlreadyStoppedSwallowed ==
    [][/\ last'.op \notin RaisedOps
       /\ (last'.op \in {"noteOff", "noteOffRaised"} /\ ~sustainPedal)
            => \A id \in SeqToSet(VoicesOf(voices, last'.note)) :
                  voice'[id].isReleasing
       /\ last'.op \in {"pedalUp", "pedalUpRaised"}
            => /\ sustainedNotes' = {}
               /\ \A n \in sustainedNotes :
                     \A id \in SeqToSet(VoicesOf(voices, n)) :
                         voice'[id].isReleasing
       /\ last'.op \in {"allNotesOff", "allNotesOffRaised"}
            => /\ sustainedNotes' = {}
               /\ \A id \in DOMAIN voice : voice'[id].isReleasing]_vars

\* C16: after any sequence of loadSample, getSample, preloadSamples and
\* clearCache calls, overlapping or not, the cache holds at most
\* maxCacheSize entries.
C16_CacheBound == Len(cache) <= maxCacheSize

\* a load has evicted to make room in a full cache of capacity 2 while
\* another load is still suspended
C16_Witness ==
    /\ cacheLast.op = "loadSampleDone"
    /\ cacheLast.evicted # <<>>
    /\ maxCacheSize = 2
    /\ Len(cache) = maxCacheSize
    /\ loading # <<>>

\* the lastAccessed of the resident sample
StampOf(c, sampleId) == c[CacheGet(c, sampleId)].lastAccessed

\* C17 as stated: an evicted entry has the smallest lastAccessed of the
\* resident entries, a hit refreshes lastAccessed, and an entry used after
\* another resident entry is never evicted before it: the evicted entry is
\* the least recently used one.
C17_Original ==
    [][/\ cacheLast'.op = "loadSampleDone"
            => \A k \in 1..Len(cacheLast'.evicted) :
                  /\ CacheGet(cache, cacheLast'.evicted[k]) # 0
                  /\ \A i \in 1..Len(cache) :
                        StampOf(cache, cacheLast'.evicted[k])
                            <= cache[i].lastAccessed
                  /\ cacheLast'.evicted[k] = Head(used)
       /\ cacheLast'.op \in {"loadSampleHit", "getSampleHit"}
            => StampOf(cache', cacheLast'.ids[1]) = wallClock]_vars

\* C17 (amended): an evicted entry has the smallest lastAccessed of the
\* resident entries and is the first such entry in insertion order; a hit
\* sets lastAccessed to the reading of Date.now(); so an entry whose
\* lastAccessed is greater than that of another resident entry is never
\* the one evicted.
C17_EvictsOldestStamp ==
    [][/\ cacheLast'.op = "loadSampleDone"
            => /\ Len(cacheLast'.evicted) <= 1
               /\ \A k \in 1..Len(cacheLast'.evicted) :
                     LET e == CacheGet(cache, cacheLast'.evicted[k])
                     IN  /\ e # 0
                         /\ \A i \in 1..Len(cache) :
                               /\ cache[e].lastAccessed <= cache[i].lastAccessed
                               /\ cache[e].lastAccessed = cache[i].lastAccessed
                                     => e <= i
       /\ cacheLast'.op \in {"loadSampleHit", "getSampleHit"}
            => /\ StampOf(cache', cacheLast'.ids[1]) = wallClock
               /\ Len(cache') = Len(cache)]_vars

\* a load has evicted from a cache of capacity 2 and the entry that stayed
\* was last used after it was inserted first
C17_Witness ==
    /\ cacheLast.op = "loadSampleDone"
    /\ Len(cacheLast.evicted) = 1
    /\ Len(cache) = 2
    /\ used = <<cache[1].id, cache[2].id>>
    /\ cache[1].lastAccessed > 0
    /\ cache[1].lastAccessed < cache[2].lastAccessed

\* C18: from the construction of the sample manager until the first sample
\* is requested the cache holds no entry and the stats report size 0 and
\* no bytes.
C18_EmptyUntilFirstUse ==
    ~cacheLast.asked
        => /\ cache = <<>>
           /\ loading = <<>>
           /\ GetCacheStats.size = 0
           /\ GetCacheStats.memoryUsage = 0

\* time has passed since the construction and nothing has been asked of
\* the sample manager
C18_Witness ==
    /\ ~cacheLast.asked
    /\ cacheLast.op = "tick"
    /\ wallClock > 0
    /\ GetCacheStats.size = 0

\* C15: every voice that leaves the registry, by its ended event, by being
\* stolen or by panic, has its gain and merger nodes disconnected in the
\* step that removes it.
C15_RemovedVoicesDisconnected ==
    last.removed \subseteq last.disconnected

\* the steps that are the synchronous part of a noteOn
NoteOnCallOps == {"noteOnRejected", "noteOn", "noteOnFailed"}

\* a zone of the first preset matches the note and the velocity
ZoneMatches(midiNote, velocity) ==
    \E i \in 1..Len(PresetZones) :
       /\ PresetZones[i].keyLow <= midiNote /\ midiNote <= PresetZones[i].keyHigh
       /\ PresetZones[i].velLow <= velocity /\ velocity <= PresetZones[i].velHigh

\* C14: a noteOn with a note outside 21..108, a velocity outside 0..127 or
\* no matching zone of the first preset returns without an error and
\* changes nothing: the registry, the voices, SustainSet, the suspended
\* calls and the sample cache are as they were.
C14_RejectedNoteOnChangesNothing ==
    [][(/\ last'.op \in NoteOnCallOps
        /\ \/ played'.midiNote < 21 \/ played'.midiNote > 108
           \/ played'.velocity < 0 \/ played'.velocity > 127
           \/ ~ZoneMatches(played'.midiNote, played'.velocity))
        => /\ last'.op = "noteOnRejected"
           /\ played'.outcome = "rejected"
           /\ UNCHANGED <<voices, voice, sustainPedal, sustainedNotes,
                          maxPolyphony, now, nextId, pending, cacheVars>>]_vars

\* a noteOn has been rejected with the registry at the limit, a note in
\* SustainSet and samples in the cache
C14_Witness ==
    /\ last.op = "noteOnRejected"
    /\ played.outcome = "rejected"
    /\ TotalVoices(voices) = maxPolyphony
    /\ sustainedNotes # {}
    /\ cache # <<>>

\* the zones of the noteOn lack a zone of one pan, or a matched zone has no
\* sample id
LacksPair(zones) ==
    \/ \A i \in 1..Len(zones) : zones[i].pan # {PanLeft}
    \/ \A i \in 1..Len(zones) : zones[i].pan # {PanRight}
    \/ \E p \in {PanLeft, PanRight} : \E z \in FindPan(zones, p) : z.sampleId = {}

\* C19: playStereoPair fails when the zones lack a pan = -500 zone or a
\* pan = +500 zone, or a matched zone has no sample id: no voice is
\* produced or registered, no source is created or started, and no sample
\* is asked of the sample manager.
C19_MissingPairFails ==
    [][(/\ last'.op \in NoteOnCallOps
        /\ ZoneMatches(played'.midiNote, played'.velocity)
        /\ played'.midiNote \in MinNote..MaxNote
        /\ played'.velocity \in MinVelocity..MaxVelocity
        /\ LacksPair(SelectZones(played'.midiNote, played'.velocity)))
        => /\ played'.outcome = "error"
           /\ played'.sources = {}
           /\ last'.op = "noteOnFailed"
           /\ pending' = pending
           /\ DOMAIN voice' \subseteq DOMAIN voice
           /\ UNCHANGED cacheVars]_vars

\* playStereoPair has failed on the zones of note 64, which has a left zone
\* only, with a sample in the cache
C19_Witness ==
    /\ last.op = "noteOnFailed"
    /\ played.outcome = "error"
    /\ played.midiNote = 64
    /\ cache # <<>>

\* C20: every voice playStereoPair produces has two sources started at the
\* same reading of the audio clock, the start time of the voice, with the
\* same playback rate, that of the left zone and the left sample, with
\* looping off on both, and with gain (velocity / 127)^2.
C20_StereoSourcesInSync ==
    played.outcome = "voice"
        => /\ Cardinality(played.sources) = 2
           /\ {s.channel : s \in played.sources} = {0, 1}
           /\ \A s \in played.sources, t \in played.sources :
                 /\ s.start = t.start
                 /\ s.playbackRate = t.playbackRate
                 /\ ~s.loop
                 /\ s.channel = 0
                       => s.playbackRate.cents =
                            (played.midiNote - OriginalPitch(s.buffer)) * 100
                                + PitchCorrection(s.buffer)
           /\ \A g \in played.gain :
                 g.num * 127 * 127 = played.velocity * played.velocity * g.den
           /\ played.gain # {}
           /\ last.op = "noteOnDone"
                 => \E id \in DOMAIN voice :
                       /\ voice[id].midiNote = played.midiNote
                       /\ \A s \in played.sources : s.start = voice[id].startTime

\* a voice of note 61, whose left and right samples differ in pitch
\* correction, has been produced at a later reading of the audio clock
C20_Witness ==
    /\ played.outcome = "voice"
    /\ played.midiNote = 61
    /\ last.op = "noteOnDone"
    /\ now = ShortGap
    /\ \A s \in played.sources : s.start = ShortGap

\* the ids of the sub-chunks of the pdta list of the file
SubChunkIds(file) == {file.pdta[i].id : i \in 1..Len(file.pdta)}

\* parse has been called and has returned or thrown
Parsed == asked # <<>> /\ asked.fn = "parse" /\ answer # <<>>

\* C21: parse throws an error and returns no bank data when the container
\* tag is not RIFF, the form type is not sfbk, or one of the seven sub-chunks
\* phdr, pbag, pgen, inst, ibag, igen, shdr is absent from the pdta list.
C21_BadContainerFails ==
    (/\ Parsed
     /\ \/ asked.file.riff # "RIFF"
        \/ asked.file.form # "sfbk"
        \/ \E id \in {"phdr", "pbag", "pgen", "inst", "ibag", "igen", "shdr"} :
              id \notin SubChunkIds(asked.file))
        => /\ answer.error # {}
           /\ answer.data = {}

\* parse has thrown on a file whose tags are right and whose pdta list
\* lacks the shdr sub-chunk alone
C21_Witness ==
    /\ Parsed
    /\ asked.file.riff = "RIFF" /\ asked.file.form = "sfbk"
    /\ SubChunkIds(asked.file) = {"phdr", "pbag", "pmod", "pgen", "inst", "ibag",
                                  "imod", "igen"}
    /\ answer.error # {}
    /\ answer.data = {}

\* the file is framed as a bank: the tags, the three LIST chunks, the smpl
\* chunk, the seven sub-chunks each with its terminator record at least, the
\* shdr chunk a whole number of records, and bag indices that name bags
WellFramed(file) ==
    /\ file.riff = "RIFF" /\ file.form = "sfbk"
    /\ {"INFO", "sdta", "pdta"} \subseteq {file.lists[i] : i \in 1..Len(file.lists)}
    /\ file.smplId = "smpl"
    /\ {"phdr", "pbag", "pgen", "inst", "ibag", "igen", "shdr"}
           \subseteq SubChunkIds(file)
    /\ \A i \in 1..Len(file.pdta) :
          /\ file.pdta[i].size > 0
          /\ file.pdta[i].id = "shdr"
                => file.pdta[i].size = ShdrRecordSize * (Len(file.headers) + 1)
    /\ file.bagsInRange

\* C22: parse of a file that is framed as a bank does not throw whatever
\* the indices of its sample headers; it yields one sample for each header
\* before the terminator, in the order of the headers; the data of a sample
\* is the samples start .. end - 1 of the PCM block when
\* 0 <= start < end <= blockLength, and empty otherwise.
C22_SampleExtraction ==
    (Parsed /\ WellFramed(asked.file))
        => /\ answer.error = {}
           /\ \E bank \in answer.data :
                 /\ Len(bank.samples) = Len(asked.file.headers)
                 /\ \A i \in 1..Len(bank.samples) :
                       LET h == asked.file.headers[i]
                       IN  IF /\ 0 <= h.start /\ h.start < h.end
                              /\ h.end <= asked.file.blockLength
                           THEN bank.samples[i].data =
                                    [k \in 1..(h.end - h.start) |->
                                        SmplData(asked.file.blockLength)
                                            [h.start + k]]
                           ELSE bank.samples[i].data = <<>>

\* parse has returned a bank of two samples, the first the slice of a header
\* in range, the second the placeholder of a header that ends past the block
C22_Witness ==
    /\ Parsed
    /\ answer.error = {}
    /\ \E bank \in answer.data :
          /\ Len(bank.samples) = 2
          /\ bank.samples[1].data = <<0, 1>>
          /\ bank.samples[2].data = <<>>
          /\ asked.file.headers[2].start = 1
          /\ asked.file.headers[2].end = 3
          /\ asked.file.blockLength = 2

\* C23: every sample of the bank parse returns has
\* startLoop < endLoop <= data.length.
C23_LoopWithinSample ==
    Parsed =>
        \A bank \in answer.data :
            \A i \in 1..Len(bank.samples) :
                /\ bank.samples[i].header.startLoop
                       < bank.samples[i].header.endLoop
                /\ bank.samples[i].header.endLoop <= Len(bank.samples[i].data)

\* calculatePlaybackRate has been called and has returned
RateAnswered ==
    asked # <<>> /\ asked.fn = "calculatePlaybackRate" /\ answer # <<>>

\* the fine tune of the zone of the call, 0 when it has none
AskedFineTune ==
    IF asked.zone.fineTune = {} THEN 0
    ELSE CHOOSE c \in asked.zone.fineTune : TRUE

\* C24: calculatePlaybackRate returns 2^(cents / 1200) * sampleRate /
\* outputRate with cents = (note - originalPitch) * 100 + pitchCorrection +
\* fineTune, the rate of the sample over the rate of the output: 1 exactly
\* when the note is the original pitch, both cent offsets are 0 and the
\* rates are equal, and 48000 / 44100 > 1 for a 48000 Hz sample on a
\* 44100 Hz output at the same pitch.
C24_PlaybackRate ==
    RateAnswered =>
        LET h == asked.sample.header
        IN  /\ answer.cents = (asked.midiNote - h.originalPitch) * 100
                                  + h.pitchCorrection + AskedFineTune
            /\ answer.num * asked.contextRate = answer.den * h.sampleRate
            /\ (/\ asked.midiNote = h.originalPitch
                /\ h.pitchCorrection = 0 /\ AskedFineTune = 0
                /\ h.sampleRate = asked.contextRate)
                   => answer = [cents |-> 0, num |-> 1, den |-> 1]
            /\ (/\ answer.cents = 0
                /\ h.sampleRate = 48000 /\ asked.contextRate = 44100)
                   => /\ answer.num * 44100 = answer.den * 48000
                      /\ answer.num > answer.den

\* the rate of a 48000 Hz sample at its original pitch on a 44100 Hz output
\* has been calculated
C24_Witness ==
    /\ RateAnswered
    /\ asked.midiNote = 60 /\ asked.sample.header.originalPitch = 60
    /\ asked.sample.header.sampleRate = 48000 /\ asked.contextRate = 44100
    /\ answer = [cents |-> 0, num |-> 48000, den |-> 44100]

\* calculateReleaseTime has been called and has returned
ReleaseAnswered ==
    asked # <<>> /\ asked.fn = "calculateReleaseTime" /\ answer # <<>>

\* C25: calculateReleaseTime returns 0.2 s for an unset value and otherwise
\* 2^(tc / 1200) s clamped to 0.01 s .. 10 s: 1 s for 0, 2 s for 1200,
\* 0.01 s for -100000, and for no value a time outside 0.01 s .. 10 s.
\* Times are in microseconds.
C25_ReleaseTime ==
    ReleaseAnswered =>
        /\ asked.releaseVolEnv = {} => answer.seconds = 200000
        /\ asked.releaseVolEnv = {0} => answer.seconds = 1000000
        /\ asked.releaseVolEnv = {1200} => answer.seconds = 2000000
        /\ asked.releaseVolEnv = {-100000} => answer.seconds = 10000
        /\ asked.releaseVolEnv # {}
              => /\ answer.seconds >= 10000
                 /\ answer.seconds <= 10000000
        /\ \A k \in 0..3 :
              asked.releaseVolEnv = {1200 * k}
                  => answer.seconds = 1000000 * Pow2(k)
        /\ \A k \in 1..6 :
              asked.releaseVolEnv = {0 - 1200 * k}
                  => /\ answer.seconds * Pow2(k) <= 1000000
                     /\ (answer.seconds + 1) * Pow2(k) > 1000000
        /\ (\E tc \in asked.releaseVolEnv : tc >= 1200 * 4)
              => answer.seconds = 10000000
        /\ (\E tc \in asked.releaseVolEnv : tc <= 0 - 1200 * 7)
              => answer.seconds = 10000

\* the release time of the value 0 has been calculated: one second
C25_Witness ==
    /\ ReleaseAnswered
    /\ asked.releaseVolEnv = {0}
    /\ answer.seconds = MicrosPerSecond

\* every registered voice that is releasing or faded has a stop time on
\* both of its sources, and every voice a steal or a panic removed had both
\* sources stopped in that step
StopRequested ==
    /\ \A id \in DOMAIN voice :
          (voice[id].isReleasing \/ voice[id].gain.kind = "fade")
              => voice[id].leftStop # {} /\ voice[id].rightStop # {}
    /\ last.op \in {"noteOn", "noteOnFailed", "panic"}
          => last.removed \subseteq last.stopped

\* C26: a stop has been requested on both sources of every voice that has
\* been released, faded by a retrigger, stolen or stopped by panic; and,
\* the ended event of a source firing once its stop time has passed, every
\* voice that is marked releasing is removed from the registry in the end.
C26_ReleasingVoicesEnd ==
    /\ []StopRequested
    /\ \A id \in 1..MaxVoices :
          (id \in DOMAIN voice /\ voice[id].isReleasing)
              ~> (id \notin DOMAIN voice)

\* a voice that is marked releasing is registered and the audio clock has
\* passed the stop time of its sources
C26_Witness ==
    \E id \in DOMAIN voice :
        /\ voice[id].isReleasing
        /\ EndedDue(id)
        /\ now > ShortGap

\* C27: when noteOn calls overlap, the registry still never holds more
\* than maxPolyphony voices.
C27_OverlapPolyphonyBound ==
    Cardinality(DOMAIN voice) <= maxPolyphony

\* C28: a noteOff with the pedal up on a note whose noteOn is still
\* suspended is not lost: when the suspended noteOn then registers its
\* voice, the voice is releasing.
C28_NoteOffWhilePending ==
    [][(/\ last.op = "noteOff"
        /\ ~sustainPedal
        /\ \E i \in 1..Len(pending) : pending[i].midiNote = last.note
        /\ last'.op = "noteOnDone"
        /\ last'.note = last.note)
        => \A id \in DOMAIN voice' \ DOMAIN voice : voice'[id].isReleasing]_vars

\* C29: after panic the registry stays empty until a noteOn is called: a
\* noteOn that was suspended when panic ran registers no voice.
C29_PanicWhilePending ==
    [][(last.op = "panic" /\ last'.op = "noteOnDone") => voices' = <<>>]_vars

\* C30: a noteOff, pedal-up or allNotesOff leaves every voice that a
\* retrigger has faded as it is: its fade is not cancelled, it is not marked
\* releasing and the stop time of its sources is not moved.
C30_FadedVoiceNotReleased ==
    [][last'.op \in ReleaseOps
        => \A id \in DOMAIN voice \cap DOMAIN voice' :
              voice[id].gain.kind = "fade"
                  => /\ voice'[id].gain = voice[id].gain
                     /\ voice'[id].isReleasing = voice[id].isReleasing
                     /\ voice'[id].leftStop = voice[id].leftStop
                     /\ voice'[id].rightStop = voice[id].rightStop]_vars

ResidentBytes ==
    LET RECURSIVE Sum(_)
        Sum(k) == IF k = 0 THEN 0 ELSE cache[k].size + Sum(k - 1)
    IN  Sum(Len(cache))

\* C32: the byte total of the cache equals the sum of the sizes of the
\* resident entries, also after two overlapping loadSample calls of one
\* sample id, and clearCache leaves no entry and a byte total of zero.
C32_BytesMatchEntries ==
    /\ totalMemoryUsage = ResidentBytes
    /\ cacheLast.op = "clearCache" => Len(cache) = 0 /\ totalMemoryUsage = 0

\* the positions of the zones of the first preset of the asked bank whose
\* key range and velocity range contain the asked note and velocity
MatchingPositions ==
    IF asked.presets = <<>> THEN {}
    ELSE {i \in 1..Len(asked.presets[1].zones) :
             LET z == asked.presets[1].zones[i]
             IN  /\ z.keyLow <= asked.midiNote /\ asked.midiNote <= z.keyHigh
                 /\ z.velLow <= asked.velocity /\ asked.velocity <= z.velHigh}

\* C33: the zones selected for a note and a velocity are exactly the zones
\* of the first preset whose key range and velocity range (bounds included)
\* contain them, in preset order; no zone of another preset is selected and
\* a bank with no preset yields no zones.
C33_FirstPresetZonesInOrder ==
    (asked # <<>> /\ asked.op = "selectZones" /\ answer # <<>>) =>
        /\ Len(answer.zones) = Cardinality(MatchingPositions)
        /\ \A k \in 1..Len(answer.zones) :
              \E i \in MatchingPositions :
                 /\ Cardinality({j \in MatchingPositions : j < i}) = k - 1
                 /\ answer.zones[k] = asked.presets[1].zones[i]

\* two zones of the first preset selected at a shared bound, a second preset
\* with other matching zones left out
C33_Witness ==
    /\ asked # <<>> /\ asked.op = "selectZones" /\ answer # <<>>
    /\ Len(asked.presets) = 2
    /\ asked.midiNote = 62 /\ asked.velocity = 63
    /\ asked.presets[1].zones = <<SelectableZones[3], SelectableZones[1]>>
    /\ asked.presets[2].zones = SelectableZones
    /\ answer.zones = <<SelectableZones[3], SelectableZones[1]>>

\* the types buildZone has a case for
InterpretedTypes ==
    {KeyRangeType, VelRangeType, PanType, FineTuneType, ReleaseVolEnvType,
     SampleIDType, InstrumentType}

\* the asked records whose type buildZone has a case for, in order
InterpretedRecords ==
    SelectSeq(asked.records,
              LAMBDA r : GetUint16(r[1], r[2]) \in InterpretedTypes)

\* C35: every generator record is decoded, in order; its 16-bit amount is a
\* two's-complement signed integer in -32768..32767, except for the types 43
\* and 44 whose amount is low = low byte and high = high byte, each in
\* 0..255; a generator of a type with no case leaves the zone as it was.
C35_GeneratorAmounts ==
    (asked # <<>> /\ asked.op = "buildZone" /\ answer # <<>>) =>
        /\ Len(answer.generators) = Len(asked.records)
        /\ \A i \in 1..Len(asked.records) :
              LET r == asked.records[i]
                  g == answer.generators[i]
              IN  /\ g.type = r[1] + 256 * r[2]
                  /\ IF g.type \in {43, 44}
                     THEN /\ g.amount = [low |-> r[3], high |-> r[4]]
                          /\ g.amount.low \in 0..255
                          /\ g.amount.high \in 0..255
                     ELSE /\ g.amount \in -32768..32767
                          /\ (g.amount - (r[3] + 256 * r[4])) % 65536 = 0
        /\ answer.zone = BuildZone(ParseGenerators(InterpretedRecords))

\* a negative pan decoded next to a generator of a type with no case
C35_Witness ==
    /\ asked # <<>> /\ asked.op = "buildZone" /\ answer # <<>>
    /\ asked.records = <<<<54, 0, 255, 255>>, <<17, 0, 0, 128>>>>
    /\ answer.generators[1] = [type |-> 54, amount |-> -1]
    /\ answer.generators[2] = [type |-> 17, amount |-> -32768]
    /\ answer.zone = [DefaultZone EXCEPT !.pan = {-32768}]

\* the zone the generators of bag b of the asked chunks build
AskedBagZone(b) ==
    BuildZone(SubSeq(ParseGenerators(asked.pgen), asked.pbag[b + 1] + 1,
                     asked.pbag[b + 2]))

RECURSIVE AskedZones(_, _)
\* the zones of the bags b..to-1 of the asked chunks: the zones of the
\* referenced instrument for a bag with an instrument generator (none when
\* there is no such instrument), the zone of the bag itself otherwise
AskedZones(b, to) ==
    IF b >= to THEN <<>>
    ELSE LET zone == AskedBagZone(b)
             ins == {id \in zone.instrumentId :
                        id \in 0..(Len(asked.instruments) - 1)}
         IN  (IF zone.instrumentId = {} THEN <<zone>>
              ELSE IF ins = {} THEN <<>>
              ELSE asked.instruments[(CHOOSE id \in ins : TRUE) + 1].zones)
             \o AskedZones(b + 1, to)

\* C34: the zones of every preset are the concatenation, in order, over its
\* bags (from its bag index up to the bag index of the next header) of the
\* zones of the referenced instrument when the bag carries an instrument
\* generator and of the zone of the bag itself otherwise.
C34_PresetZonesExpanded ==
    (asked # <<>> /\ asked.op = "parsePresets" /\ answer # <<>>) =>
        /\ Len(answer.presets) = Len(asked.phdr) - 1
        /\ \A k \in 1..Len(answer.presets) :
              answer.presets[k].zones
                 = AskedZones(asked.phdr[k], asked.phdr[k + 1])

\* the last step handled a sustain pedal message with a value for pedal up
PedalWentUp ==
    /\ frontLast.op = "midi"
    /\ frontLast.emitted # <<>>
    /\ frontLast.emitted[1].type = "cc"
    /\ frontLast.emitted[1].note = SustainPedalController
    /\ frontLast.emitted[1].velocity < SustainThreshold

\* C37: in the sustained display mode, after the sustain pedal goes up every
\* key that is held (its last event is a noteon) is in activeKeys, also a
\* key released and pressed again while the pedal was down.
C37_HeldKeysStayActive ==
    (keyboardDisplayMode = "sustained" /\ PedalWentUp) =>
        frontLast.open \subseteq midiStore.activeKeys

\* C38: the noteon and noteoff events MIDIManager emits alternate for each
\* note number: no noteon is emitted for a note whose last emitted event is
\* a noteon, and a handled note-on message with velocity 0 is emitted as a
\* noteoff.
C38_NoteEventsAlternate ==
    frontLast.op = "midi" =>
        /\ \A i \in 1..Len(frontLast.emitted) :
              frontLast.emitted[i].type = "noteon" =>
                 /\ frontLast.emitted[i].note \notin frontLast.wasOpen
                 /\ frontLast.emitted[i].velocity > 0
        /\ ( /\ frontLast.handled
             /\ frontLast.message.status \in {NoteOnStatus, NoteOnStatus + 1} )
           => IF frontLast.message.data2 = 0
              THEN frontLast.emitted = <<NoteOffEvent(frontLast.message.data1)>>
              ELSE IF frontLast.message.data1 \in frontLast.wasOpen
              THEN frontLast.emitted = <<>>
              ELSE frontLast.emitted
                      = <<NoteOnEvent(frontLast.message.data1,
                                      frontLast.message.data2)>>

\* a second note-on message for a sounding note, on another channel, is
\* handled and emits nothing
C38_Witness ==
    /\ frontLast.op = "midi"
    /\ frontLast.handled
    /\ frontLast.message = [status |-> NoteOnStatus + 1, data1 |-> 60,
                            data2 |-> 100]
    /\ 60 \in frontLast.wasOpen
    /\ frontLast.emitted = <<>>
    /\ 60 \in frontLast.open

\* C36: the noteoff listener of AudioEngine calls noteOff with the note
\* number that the noteon listener gave to noteOn for the same key, also
\* when setTranspose was called between the two events.
C36_NoteOffMatchesNoteOn ==
    (frontLast.op = "noteoff" /\ frontLast.matched # {}) =>
        frontLast.call.note \in frontLast.matched

\* C39: after every operation of audioStore and every pedal change that
\* arrives by MIDI, the sustainPedalDown store equals the pedal flag of the
\* engine as getStats reports it.
C39_StorePedalMatchesEngine == sustainPedalDown = EnginePedalDown

\* C40: detectChord returns no name for the empty set and for a set with one
\* pitch class; for a set with two pitch classes it returns a name only when
\* the other pitch class is 7 semitones above that of the lowest note, and
\* the name is then the name of the root followed by "5".
C40_PowerChordOnly ==
    (asked # <<>> /\ asked.op = "detectChord" /\ answer # <<>>) =>
        LET pcs == PitchClassesOf(asked.midiNumbers)
            lowest == CHOOSE m \in asked.midiNumbers :
                         \A n \in asked.midiNumbers : m <= n
            root == lowest % 12
        IN  IF Cardinality(pcs) <= 1 THEN answer.name = <<>>
            ELSE IF (root + 7) % 12 \in pcs
            THEN answer.name = Num2Chord(asked.useFlat, root) \o <<"5">>
            ELSE answer.name = <<>>

====
